---- MODULE Spec2Model ----
(***************************************************************************)
(* Proxyflare: the relay handler (workers/python/worker.py, on_fetch) and  *)
(* the client-side transport (client/transport.py, client/manager.py).     *)
(*                                                                         *)
(* A Python str is modelled as a sequence of one-character strings, so     *)
(* that parsing, quoting and unquoting are computed character by           *)
(* character, as urllib.parse computes them.  A Python dict is modelled as *)
(* a sequence of [k, v] entries with pairwise distinct keys, in insertion  *)
(* order.  Intermediate values are passed as operator arguments, the way   *)
(* the code passes them through local variables.                           *)
(***************************************************************************)
EXTENDS Integers, Sequences, FiniteSets, TLC

(***************************************************************************)
(* str primitives                                                          *)
(***************************************************************************)
\* s[:n]
Take(s, n) == SubSeq(s, 1, IF n < Len(s) THEN n ELSE Len(s))

\* s[n:]
Drop(s, n) == IF n >= Len(s) THEN <<>> ELSE SubSeq(s, n + 1, Len(s))

\* s.startswith(p)
StartsWith(s, p) == Len(s) >= Len(p) /\ Take(s, Len(p)) = p

\* c in s
Contains(s, c) == \E i \in 1..Len(s) : s[i] = c

\* the first position of a character of cs in s, 0 when there is none
FindAny(s, cs) ==
    IF \E i \in 1..Len(s) : s[i] \in cs
    THEN CHOOSE i \in 1..Len(s) : s[i] \in cs /\ \A j \in 1..(i - 1) : s[j] \notin cs
    ELSE 0

\* s.find(c) + 1
Find(s, c) == FindAny(s, {c})

\* s.rfind(c) + 1
RFind(s, c) ==
    IF \E i \in 1..Len(s) : s[i] = c
    THEN CHOOSE i \in 1..Len(s) : s[i] = c /\ \A j \in (i + 1)..Len(s) : s[j] # c
    ELSE 0

\* s.find(c, start - 1) + 1, with start a position counted from 1
FindFrom(s, c, start) ==
    LET Shift(i, by) == IF i = 0 THEN 0 ELSE i + by
    IN  Shift(Find(Drop(s, start - 1), c), start - 1)

RECURSIVE Split(_, _)
SplitAt(s, c, i) ==
    IF i = 0 THEN <<s>> ELSE <<Take(s, i - 1)>> \o Split(Drop(s, i), c)

\* s.split(c)
Split(s, c) == SplitAt(s, c, Find(s, c))

RECURSIVE Join(_, _)
\* sep.join(parts)
Join(parts, sep) ==
    IF parts = <<>> THEN <<>>
    ELSE IF Len(parts) = 1 THEN parts[1]
    ELSE parts[1] \o sep \o Join(Tail(parts), sep)

RECURSIVE LStrip(_, _)
\* s.lstrip(c)
LStrip(s, c) == IF s # <<>> /\ s[1] = c THEN LStrip(Tail(s), c) ELSE s

UpperLetters ==
    <<"A", "B", "C", "D", "E", "F", "G", "H", "I", "J", "K", "L", "M",
      "N", "O", "P", "Q", "R", "S", "T", "U", "V", "W", "X", "Y", "Z">>

LowerLetters ==
    <<"a", "b", "c", "d", "e", "f", "g", "h", "i", "j", "k", "l", "m",
      "n", "o", "p", "q", "r", "s", "t", "u", "v", "w", "x", "y", "z">>

Digits == <<"0", "1", "2", "3", "4", "5", "6", "7", "8", "9">>

Range(f) == {f[i] : i \in DOMAIN f}

LowerChar(c) ==
    IF c \in Range(UpperLetters)
    THEN LowerLetters[CHOOSE i \in 1..Len(UpperLetters) : UpperLetters[i] = c]
    ELSE c

\* s.lower()
Lower(s) == [i \in 1..Len(s) |-> LowerChar(s[i])]

RECURSIVE IntToStr(_)
\* str(n) for n >= 0
IntToStr(n) ==
    IF n < 10 THEN <<Digits[n + 1]>>
    ELSE IntToStr(n \div 10) \o <<Digits[(n % 10) + 1]>>

RECURSIVE StrToInt(_)
\* int(s) for a non-empty string of decimal digits
StrToInt(s) ==
    LET DigitValue(c) == (CHOOSE i \in 1..Len(Digits) : Digits[i] = c) - 1
    IN  IF Len(s) = 1 THEN DigitValue(s[1])
         ELSE 10 * StrToInt(Take(s, Len(s) - 1)) + DigitValue(s[Len(s)])

IsDecimal(s) == s # <<>> /\ \A i \in 1..Len(s) : s[i] \in Range(Digits)

(***************************************************************************)
(* dict primitives: a dict is a sequence of [k |-> key, v |-> value]       *)
(***************************************************************************)
DictKeys(d) == {d[i].k : i \in DOMAIN d}

DictHas(d, key) == \E i \in DOMAIN d : d[i].k = key

\* d[key], for a key of d
DictGet(d, key) == d[CHOOSE i \in DOMAIN d : d[i].k = key].v

\* d[key] = val
DictSet(d, key, val) ==
    IF DictHas(d, key)
    THEN [i \in DOMAIN d |-> IF d[i].k = key THEN [k |-> key, v |-> val] ELSE d[i]]
    ELSE Append(d, [k |-> key, v |-> val])

RECURSIVE DictUpdate(_, _)
\* d.update(e)
DictUpdate(d, e) ==
    IF e = <<>> THEN d
    ELSE DictUpdate(DictSet(d, e[1].k, e[1].v), Tail(e))

RECURSIVE DictWithoutKeys(_, _)
\* {k: v for k, v in d.items() if k not in keys}
DictWithoutKeys(d, keys) ==
    IF d = <<>> THEN <<>>
    ELSE (IF d[1].k \in keys THEN <<>> ELSE <<d[1]>>) \o DictWithoutKeys(Tail(d), keys)

(***************************************************************************)
(* urllib.parse, as worker.py uses it                                      *)
(***************************************************************************)
Letters == Range(LowerLetters) \cup Range(UpperLetters)

\* urllib.parse.scheme_chars
SchemeChars == Letters \cup Range(Digits) \cup {"+", "-", "."}

\* the characters quote() never escapes
Unreserved == Letters \cup Range(Digits) \cup {"_", ".", "-", "~"}

\* <<character, first hex digit, second hex digit>> of its percent escape
Escapes ==
    << <<" ", "2", "0">>, <<"#", "2", "3">>, <<"%", "2", "5">>, <<"&", "2", "6">>,
       <<"+", "2", "B">>, <<",", "2", "C">>, <<"/", "2", "F">>, <<":", "3", "A">>,
       <<";", "3", "B">>, <<"=", "3", "D">>, <<"?", "3", "F">>, <<"[", "5", "B">>,
       <<"]", "5", "D">> >>

RECURSIVE unquote(_)
\* urllib.parse.unquote: %XX becomes the character, anything else stays
unquote(s) ==
    LET IsEscape(h1, h2) ==
            \E i \in DOMAIN Escapes :
                Escapes[i][2] = h1 /\ LowerChar(Escapes[i][3]) = LowerChar(h2)
        EscapedChar(h1, h2) ==
            Escapes[CHOOSE i \in DOMAIN Escapes :
                        Escapes[i][2] = h1 /\ LowerChar(Escapes[i][3]) = LowerChar(h2)][1]
    IN  IF s = <<>> THEN <<>>
         ELSE IF s[1] = "%" /\ Len(s) >= 3 /\ IsEscape(s[2], s[3])
         THEN <<EscapedChar(s[2], s[3])>> \o unquote(Drop(s, 3))
         ELSE <<s[1]>> \o unquote(Tail(s))

\* s.replace("+", " ")
PlusToSpace(s) == [i \in 1..Len(s) |-> IF s[i] = "+" THEN " " ELSE s[i]]

QuoteChar(c) ==
    LET EscapeOf(e) == <<"%", e[2], e[3]>>
    IN  IF c \in Unreserved THEN <<c>>
         ELSE EscapeOf(Escapes[CHOOSE i \in DOMAIN Escapes : Escapes[i][1] = c])

RECURSIVE quote(_)
\* urllib.parse.quote(s, safe="")
quote(s) == IF s = <<>> THEN <<>> ELSE QuoteChar(s[1]) \o quote(Tail(s))

RECURSIVE quote_plus(_)
\* urllib.parse.quote_plus(s): a space becomes "+"
quote_plus(s) ==
    IF s = <<>> THEN <<>>
    ELSE (IF s[1] = " " THEN <<"+">> ELSE QuoteChar(s[1])) \o quote_plus(Tail(s))

SplitQuery(scheme, netloc, url, fragment) ==
    LET \* urlsplit: url.split("?", 1), q the position of the first "?"
        SplitQueryAt(scheme_, netloc_, url_, fragment_, q) ==
            [scheme   |-> scheme_,
             netloc   |-> netloc_,
             fragment |-> fragment_,
             path     |-> IF q = 0 THEN url_ ELSE Take(url_, q - 1),
             query    |-> IF q = 0 THEN <<>> ELSE Drop(url_, q),
             raises   |-> Contains(netloc_, "[") # Contains(netloc_, "]")]
    IN  SplitQueryAt(scheme, netloc, url, fragment, Find(url, "?"))

SplitFragment(scheme, netloc, url) ==
    LET \* urlsplit: url.split("#", 1), h the position of the first "#"
        SplitFragmentAt(scheme_, netloc_, url_, h) ==
            SplitQuery(scheme_, netloc_,
                       IF h = 0 THEN url_ ELSE Take(url_, h - 1),
                       IF h = 0 THEN <<>> ELSE Drop(url_, h))
    IN  SplitFragmentAt(scheme, netloc, url, Find(url, "#"))

SplitNetloc(scheme, url) ==
    LET \* urlsplit: _splitnetloc(url, 2), d the position of the first of "/?#" after "//"
        SplitNetlocAt(scheme_, rest, d) ==
            SplitFragment(scheme_,
                          IF d = 0 THEN rest ELSE Take(rest, d - 1),
                          IF d = 0 THEN <<>> ELSE Drop(rest, d - 1))
    IN  IF Take(url, 2) = <<"/", "/">>
         THEN SplitNetlocAt(scheme, Drop(url, 2), FindAny(Drop(url, 2), {"/", "?", "#"}))
         ELSE SplitFragment(scheme, <<>>, url)

\* urllib.parse.urlsplit(url); raises stands for its ValueError("Invalid IPv6 URL")
urlsplit(url) ==
    LET \* urlsplit's scheme test, i the position of the first ":": the scheme's length, or 0
        SchemeLenAt(url_, i) ==
            IF i > 1 /\ url_[1] \in Letters /\ \A j \in 1..(i - 1) : url_[j] \in SchemeChars
            THEN i - 1 ELSE 0
        \* urlsplit: the scheme, n its length
        SplitSchemeAt(url_, n) ==
            IF n > 0 THEN SplitNetloc(Lower(Take(url_, n)), Drop(url_, n + 1))
            ELSE SplitNetloc(<<>>, url_)
    IN  SplitSchemeAt(url, SchemeLenAt(url, Find(url, ":")))

S_http == <<"h", "t", "t", "p">>

\* the members of urllib.parse.uses_params and uses_netloc that occur here
UsesParams == {<<>>, <<"f", "t", "p">>, S_http, <<"h", "t", "t", "p", "s">>}

UsesNetloc == {<<>>, <<"f", "t", "p">>, S_http, <<"h", "t", "t", "p", "s">>}

SplitParams(sp) ==
    LET \* urllib.parse._splitparams(path): the position of the ";" that starts the
        \* params, 0 when there is none
        ParamsAt(path) ==
            IF Contains(path, "/") THEN FindFrom(path, ";", RFind(path, "/"))
            ELSE Find(path, ";")
        SplitParamsAt(sp_, i) ==
            [scheme   |-> sp_.scheme,
             netloc   |-> sp_.netloc,
             fragment |-> sp_.fragment,
             path     |-> IF i = 0 THEN sp_.path ELSE Take(sp_.path, i - 1),
             query    |-> sp_.query,
             raises   |-> sp_.raises,
             params   |-> IF i = 0 THEN <<>> ELSE Drop(sp_.path, i)]
    IN  SplitParamsAt(sp, IF sp.scheme \in UsesParams /\ Contains(sp.path, ";")
                          THEN ParamsAt(sp.path) ELSE 0)

\* urllib.parse.urlparse(url)
urlparse(url) == SplitParams(urlsplit(url))

\* urllib.parse.urlunparse(p)
urlunparse(p) ==
    LET \* urlunparse: "%s;%s" % (url, params)
        UnparsePath(p_) == IF p_.params # <<>> THEN p_.path \o <<";">> \o p_.params ELSE p_.path
        \* urlunsplit: the "//" + netloc prefix
        UnparseNetloc(p_, url) ==
            IF p_.netloc # <<>>
               \/ (p_.scheme # <<>> /\ p_.scheme \in UsesNetloc /\ Take(url, 2) # <<"/", "/">>)
            THEN <<"/", "/">> \o p_.netloc
                 \o (IF url # <<>> /\ url[1] # "/" THEN <<"/">> ELSE <<>>) \o url
            ELSE url
        UnparseRest(p_, url) ==
            (IF p_.scheme # <<>> THEN p_.scheme \o <<":">> ELSE <<>>)
            \o url
            \o (IF p_.query # <<>> THEN <<"?">> \o p_.query ELSE <<>>)
            \o (IF p_.fragment # <<>> THEN <<"#">> \o p_.fragment ELSE <<>>)
    IN  UnparseRest(p, UnparseNetloc(p, UnparsePath(p)))

RECURSIVE ParseQslItems(_)
ParseQslItems(items) ==
    LET \* parse_qsl, one name_value item, i the position of its first "=":
        \* no "=" or a blank value is skipped (keep_blank_values=False)
        ParseQslItem(nv, i) ==
            IF nv = <<>> \/ i = 0 \/ Drop(nv, i) = <<>> THEN <<>>
            ELSE << <<unquote(PlusToSpace(Take(nv, i - 1))), unquote(PlusToSpace(Drop(nv, i)))>> >>
    IN  IF items = <<>> THEN <<>>
         ELSE ParseQslItem(items[1], Find(items[1], "=")) \o ParseQslItems(Tail(items))

\* urllib.parse.parse_qsl(qs)
parse_qsl(qs) == ParseQslItems(Split(qs, "&"))

RECURSIVE CollectPairs(_, _)
\* the loop of parse_qs: a repeated name appends to that name's list
CollectPairs(pairs, d) ==
    IF pairs = <<>> THEN d
    ELSE CollectPairs(Tail(pairs),
             DictSet(d, pairs[1][1],
                     IF DictHas(d, pairs[1][1])
                     THEN Append(DictGet(d, pairs[1][1]), pairs[1][2])
                     ELSE <<pairs[1][2]>>))

\* urllib.parse.parse_qs(qs)
parse_qs(qs) == CollectPairs(parse_qsl(qs), <<>>)

RECURSIVE EncodeValues(_, _)
EncodeValues(key, vals) ==
    IF vals = <<>> THEN <<>>
    ELSE <<quote_plus(key) \o <<"=">> \o quote_plus(vals[1])>>
         \o EncodeValues(key, Tail(vals))

RECURSIVE EncodeItems(_)
EncodeItems(d) ==
    IF d = <<>> THEN <<>>
    ELSE EncodeValues(d[1].k, d[1].v) \o EncodeItems(Tail(d))

\* urllib.parse.urlencode(d, doseq=True)
urlencode(d) == Join(EncodeItems(d), <<"&">>)

(***************************************************************************)
(* The relay handler: workers/python/worker.py                             *)
(***************************************************************************)
\* Python's None, distinct from every str
None == <<"None">>

\* not x, for x a str or None
Falsy(x) == x = None \/ x = <<>>

S_url == <<"u", "r", "l">>

FILTERED_PARAMS == {S_url, <<"_", "c", "b">>, <<"_", "t">>}

\* "X-Forwarded-For"
H_XForwardedFor == <<"X", "-", "F", "o", "r", "w", "a", "r", "d", "e", "d", "-", "F", "o", "r">>

\* "X-Target-URL"
H_XTargetURL == <<"X", "-", "T", "a", "r", "g", "e", "t", "-", "U", "R", "L">>

\* "x-my-x-forwarded-for"
H_xmyxff == <<"x", "-", "m", "y", "-", "x", "-", "f", "o", "r", "w", "a", "r", "d", "e", "d", "-", "f", "o", "r">>

\* "x-forwarded-for"
H_xff == <<"x", "-", "f", "o", "r", "w", "a", "r", "d", "e", "d", "-", "f", "o", "r">>

\* "Access-Control-Allow-Origin"
H_AllowOrigin == <<"A", "c", "c", "e", "s", "s", "-", "C", "o", "n", "t", "r", "o", "l", "-", "A", "l", "l", "o", "w", "-", "O", "r", "i", "g", "i", "n">>

\* "Access-Control-Allow-Methods"
H_AllowMethods == <<"A", "c", "c", "e", "s", "s", "-", "C", "o", "n", "t", "r", "o", "l", "-", "A", "l", "l", "o", "w", "-", "M", "e", "t", "h", "o", "d", "s">>

\* "Access-Control-Allow-Headers"
H_AllowHeaders == <<"A", "c", "c", "e", "s", "s", "-", "C", "o", "n", "t", "r", "o", "l", "-", "A", "l", "l", "o", "w", "-", "H", "e", "a", "d", "e", "r", "s">>

\* the request headers on_fetch never forwards:
\* host, cf-connecting-ip, cf-ipcountry, cf-ray, cf-visitor
StrippedRequestHeaders ==
    {<<"h", "o", "s", "t">>,
     <<"c", "f", "-", "c", "o", "n", "n", "e", "c", "t", "i", "n", "g", "-", "i", "p">>,
     <<"c", "f", "-", "i", "p", "c", "o", "u", "n", "t", "r", "y">>,
     <<"c", "f", "-", "r", "a", "y">>,
     <<"c", "f", "-", "v", "i", "s", "i", "t", "o", "r">>}

RandMin == 1

RandMax == 255

\* generate_random_ip drawing each octet from 0..254
generate_random_ip_from_zero(draws) ==
    Join([i \in 1..4 |-> IntToStr(draws[i] - 1)], <<".">>)

\* generate_random_ip(): ".".join(str(random.randint(1, 255)) for _ in range(4)),
\* with draws the four values random.randint returned
generate_random_ip(draws) ==
    Join([i \in 1..4 |-> IntToStr(draws[i])], <<".">>)

RECURSIVE HeadersFrom(_, _)
HeadersFrom(lines, d) ==
    IF lines = <<>> THEN d
    ELSE HeadersFrom(Tail(lines), DictSet(d, Lower(lines[1].k), lines[1].v))

\* the js Headers container: names are stored lower-cased, a later line of the
\* same name replaces the earlier one
MockHeaders(lines) == HeadersFrom(lines, <<>>)

\* Headers.get(name): the lookup lower-cases the name; None when absent
HeadersGet(h, name) ==
    IF DictHas(h, Lower(name)) THEN DictGet(h, Lower(name)) ELSE None

\* "GET, POST, PUT, DELETE, OPTIONS, PATCH, HEAD"
\* the literal CORS headers of the preflight and of create_error_response
DefaultCorsHeaders ==
    << [k |-> H_AllowOrigin, v |-> <<"*">>],
       [k |-> H_AllowMethods, v |-> <<"G", "E", "T", ",", " ", "P", "O", "S", "T", ",", " ", "P", "U", "T", ",", " ", "D", "E", "L", "E", "T", "E", ",", " ", "O", "P", "T", "I", "O", "N", "S", ",", " ", "P", "A", "T", "C", "H", ",", " ", "H", "E", "A", "D">>],
       [k |-> H_AllowHeaders, v |-> <<"*">>] >>

\* "application/json"
\* "Content-Type"
\* create_error_response(message, details, status, cors_headers): Response.json
create_error_response(message, usage, status, cors_headers) ==
    [status  |-> status,
     headers |-> DictUpdate(<< [k |-> <<"C", "o", "n", "t", "e", "n", "t", "-", "T", "y", "p", "e">>, v |-> <<"a", "p", "p", "l", "i", "c", "a", "t", "i", "o", "n", "/", "j", "s", "o", "n">>] >>,
                            IF cors_headers # <<>> THEN cors_headers
                            ELSE DefaultCorsHeaders),
     body    |-> [usage |-> usage, kind |-> "json", error |-> message,
                  stream |-> "None"]]

\* the response of the CORS preflight
PreflightResponse ==
    [status  |-> 204,
     headers |-> DefaultCorsHeaders,
     body    |-> [usage |-> <<>>, kind |-> "none", error |-> <<>>,
                  stream |-> "None"]]

\* the target rebuilt from target_parsed; urlparse raising leaves on_fetch at once
RebuildTarget(target_parsed, query_params) ==
    LET \* urlencode(filtered_qs, doseq=True) if filtered_qs else ""
        NewQuery(filtered_qs) == IF filtered_qs # <<>> THEN urlencode(filtered_qs) ELSE <<>>
        \* filtered_qs after filtered_qs.update(extra_qs)
        MergedQuery(target_qs, query_params_) ==
            DictUpdate(DictWithoutKeys(target_qs, FILTERED_PARAMS),
                       DictWithoutKeys(query_params_, FILTERED_PARAMS))
    IN  IF target_parsed.raises THEN [raises |-> TRUE, target |-> None]
         ELSE [raises |-> FALSE,
              target |-> urlunparse([target_parsed EXCEPT !.query =
                             NewQuery(MergedQuery(parse_qs(target_parsed.query),
                                                  query_params))])]

\* step 1.1: target_url after the query-parameter step
TargetFromQuery(query_params) ==
    LET \* url_param[0] when "url_param and url_param[0]" holds, else None
        UrlParamValue(query_params_) ==
            IF DictHas(query_params_, S_url) /\ DictGet(query_params_, S_url) # <<>>
               /\ DictGet(query_params_, S_url)[1] # <<>>
            THEN DictGet(query_params_, S_url)[1]
            ELSE None
        TargetFromValue(value, query_params_) ==
            IF value = None THEN [raises |-> FALSE, target |-> None]
            ELSE RebuildTarget(urlparse(value), query_params_)
    IN  TargetFromValue(UrlParamValue(query_params), query_params)

\* TargetFromHeader letting an X-Target-URL header win whenever one is present
TargetFromHeader_header_first(req, t) ==
    IF ~t.raises /\ HeadersGet(req.headers, H_XTargetURL) # None
    THEN [t EXCEPT !.target = HeadersGet(req.headers, H_XTargetURL)]
    ELSE t

\* step 1.2: target_url after the header step
TargetFromHeader(req, t) ==
    IF ~t.raises /\ Falsy(t.target)
    THEN [t EXCEPT !.target = HeadersGet(req.headers, H_XTargetURL)]
    ELSE t

\* PathStep without the test that the path begins with http
PathStep_any_path(parsed_path, path, t) ==
    IF ~t.raises /\ Falsy(t.target) /\ parsed_path # <<"/">>
    THEN [t EXCEPT !.target = path]
    ELSE t

PathStep(parsed_path, path, t) ==
    IF ~t.raises /\ Falsy(t.target) /\ parsed_path # <<"/">> /\ StartsWith(path, S_http)
    THEN [t EXCEPT !.target = path]
    ELSE t

\* step 1.3: target_url after the path step
TargetFromPath(parsed_url, t) == PathStep(parsed_url.path, LStrip(parsed_url.path, "/"), t)

\* step 1 of on_fetch: [raises, target], target the final target_url
ResolveTarget(req) ==
    LET ResolveParsed(req_, parsed_url) ==
            TargetFromPath(parsed_url,
                           TargetFromHeader(req_, TargetFromQuery(parse_qs(parsed_url.query))))
    IN  ResolveParsed(req, urlparse(req.url))

\* the keys of the "usage" object of the 400 body
\* "Missing target URL"
\* the 400 response
MissingTargetResponse ==
    create_error_response(<<"M", "i", "s", "s", "i", "n", "g", " ", "t", "a", "r", "g", "e", "t", " ", "U", "R", "L">>, <<"query_param", "header", "path">>, 400, <<>>)

\* SanitizeEntry without the test for the platform's header names
SanitizeEntry_no_strip(headers, key, value, key_lower) ==
    IF key_lower = H_xmyxff THEN DictSet(headers, H_XForwardedFor, value)
    ELSE DictSet(headers, key, value)

\* one pass of the loop over request.headers.entries()
SanitizeEntry(headers, key, value, key_lower) ==
    IF key_lower \in StrippedRequestHeaders THEN headers
    ELSE IF key_lower = H_xmyxff THEN DictSet(headers, H_XForwardedFor, value)
    ELSE DictSet(headers, key, value)

RECURSIVE SanitizeLoop_keep_override(_, _)
\* SanitizeLoop passing X-My-X-Forwarded-For on under its own name
SanitizeLoop_keep_override(entries, headers) ==
    IF entries = <<>> THEN headers
    ELSE SanitizeLoop_keep_override(Tail(entries),
             IF Lower(entries[1].k) \in StrippedRequestHeaders THEN headers
             ELSE DictSet(headers, entries[1].k, entries[1].v))

RECURSIVE SanitizeLoop(_, _)
SanitizeLoop(entries, headers) ==
    IF entries = <<>> THEN headers
    ELSE SanitizeLoop(Tail(entries),
                      SanitizeEntry(headers, entries[1].k, entries[1].v,
                                    Lower(entries[1].k)))

\* any(k.lower() == "x-forwarded-for" for k in headers)
has_forwarded_for(headers) == \E i \in DOMAIN headers : Lower(headers[i].k) = H_xff

\* step 2 of on_fetch: the headers of the downstream request
PrepareHeaders(req, draws) ==
    LET \* headers["X-Forwarded-For"] = generate_random_ip(), if not has_forwarded_for
        AddForwardedFor(headers, draws_) ==
            IF ~has_forwarded_for(headers)
            THEN DictSet(headers, H_XForwardedFor, generate_random_ip(draws_))
            ELSE headers
    IN  AddForwardedFor(SanitizeLoop(req.headers, <<>>), draws)

\* RequestBody sending the body whatever the method
RequestBody_any_method(req) == req.body

\* step 3 of on_fetch
RequestBody(req) == IF req.method \notin {"GET", "HEAD"} THEN req.body ELSE "None"

\* steps 4 and 5: the arguments of fetch(target_url, init_js)
FetchCall(req, target, headers) ==
    [url     |-> target,
     headers |-> headers,
     body    |-> RequestBody(req),
     method  |-> req.method]

Unbound == <<"Unbound">>

\* getattr(env, name, default)
EnvGet(e, name, default) == IF e[name] = Unbound THEN default ELSE e[name]

\* CorsHeaders setting Access-Control-Allow-Origin only
CorsHeaders_origin_only(e) ==
    << [k |-> H_AllowOrigin, v |-> EnvGet(e, "CORS_ORIGIN", <<"*">>)] >>

\* "GET, POST, OPTIONS"
\* the CORS headers of a proxied response
CorsHeaders(e) ==
    << [k |-> H_AllowOrigin, v |-> EnvGet(e, "CORS_ORIGIN", <<"*">>)],
       [k |-> H_AllowMethods, v |-> EnvGet(e, "CORS_METHODS", <<"G", "E", "T", ",", " ", "P", "O", "S", "T", ",", " ", "O", "P", "T", "I", "O", "N", "S">>)],
       [k |-> H_AllowHeaders, v |-> EnvGet(e, "CORS_ALLOWED_HEADERS", <<"*">>)] >>

\* FilterResponseHeaders copying every downstream header
FilterResponseHeaders_keep_all(entries, new_headers) == DictUpdate(new_headers, entries)

\* the response headers on_fetch never relays:
\* content-encoding, content-length, transfer-encoding
RECURSIVE FilterResponseHeaders(_, _)
\* step 6: the loop over response.headers.entries()
FilterResponseHeaders(entries, new_headers) ==
    IF entries = <<>> THEN new_headers
    ELSE FilterResponseHeaders(Tail(entries),
             IF Lower(entries[1].k) \notin {<<"c", "o", "n", "t", "e", "n", "t", "-", "e", "n", "c", "o", "d", "i", "n", "g">>, <<"c", "o", "n", "t", "e", "n", "t", "-", "l", "e", "n", "g", "t", "h">>, <<"t", "r", "a", "n", "s", "f", "e", "r", "-", "e", "n", "c", "o", "d", "i", "n", "g">>}
             THEN DictSet(new_headers, entries[1].k, entries[1].v)
             ELSE new_headers)

\* the response relayed for the downstream response resp
ProxiedResponse(resp, e) ==
    [status  |-> resp.status,
     headers |-> DictUpdate(FilterResponseHeaders(resp.headers, <<>>), CorsHeaders(e)),
     body    |-> [usage |-> <<>>, kind |-> "stream", error |-> <<>>,
                  stream |-> resp.body]]

\* "Proxy Error: "
\* the 502 response
ProxyErrorResponse(cause) ==
    create_error_response(<<"P", "r", "o", "x", "y", " ", "E", "r", "r", "o", "r", ":", " ">> \o cause, <<>>, 502, <<>>)

(***************************************************************************)
(* Inputs of the relay handler                                             *)
(***************************************************************************)
\* the most query items a generated relay URL carries
MaxParams == 2

\* the most header lines a generated relay request carries
MaxHeaders == 2

\* the sequences of at most n distinct members of pool
DistinctSeqs(pool, n) ==
    UNION {{q \in [1..m -> pool] : \A i, j \in 1..m : i # j => q[i] # q[j]} : m \in 0..n}

\* "url=http://t/p"
Q_PlainTarget == <<"u", "r", "l", "=", "h", "t", "t", "p", ":", "/", "/", "t", "/", "p">>

\* "http://w": the relay's own origin
RelayUrl(path, items) ==
    <<"h", "t", "t", "p", ":", "/", "/", "w">> \o path \o (IF items = <<>> THEN <<>> ELSE <<"?">> \o Join(items, <<"&">>))

\* "X-Target-URL: http://h/q"
TargetHeaderLine == [k |-> <<"X", "-", "T", "a", "r", "g", "e", "t", "-", "U", "R", "L">>, v |-> <<"h", "t", "t", "p", ":", "/", "/", "h", "/", "q">>]

Methods == {"GET", "HEAD", "POST", "OPTIONS"}

\* js Request: raw are the header lines on the wire, headers the Headers container
Request(method, url, lines, body) ==
    [url |-> url, headers |-> MockHeaders(lines), body |-> body, method |-> method,
     raw |-> lines]

Requests ==
    LET \* request paths: none, "/", "/http://t/p", "//http://t/p", "/x"
        RelayPaths ==
            {<<>>,
             <<"/">>,
             <<"/", "h", "t", "t", "p", ":", "/", "/", "t", "/", "p">>,
             <<"/", "/", "h", "t", "t", "p", ":", "/", "/", "t", "/", "p">>,
             <<"/", "x">>}
        \* query items as they arrive on the wire:
        \*   url=http://t/p          url=<quoted http://t/p?k=a&_cb=9&f=&b=1>     url=
        \*   url=<quoted ?_t=1>      url=<quoted http://[>     _cb=1     k=v     b=
        QueryItems ==
            {Q_PlainTarget,
             <<"u", "r", "l", "=", "h", "t", "t", "p", "%", "3", "A", "%", "2", "F", "%", "2", "F", "t", "%", "2", "F", "p", "%", "3", "F", "k", "%", "3", "D", "a", "%", "2", "6", "_", "c", "b", "%", "3", "D", "9", "%", "2", "6", "f", "%", "3", "D", "%", "2", "6", "b", "%", "3", "D", "1">>,
             <<"u", "r", "l", "=">>,
             <<"u", "r", "l", "=", "%", "3", "F", "_", "t", "%", "3", "D", "1">>,
             <<"u", "r", "l", "=", "h", "t", "t", "p", "%", "3", "A", "%", "2", "F", "%", "2", "F", "%", "5", "B">>,
             <<"_", "c", "b", "=", "1">>,
             <<"k", "=", "v">>,
             <<"b", "=">>}
        \* header lines as the client sent them, in any casing:
        \*   X-Forwarded-For: 9.9.9.9   x-forwarded-for: 8.8.8.8   X-My-X-Forwarded-For: 1.2.3.4
        \*   Host: w   CF-Ray: r1   X-Custom: c   X-Target-URL: http://h/q
        HeaderLines ==
            {[k |-> <<"X", "-", "F", "o", "r", "w", "a", "r", "d", "e", "d", "-", "F", "o", "r">>, v |-> <<"9", ".", "9", ".", "9", ".", "9">>],
             [k |-> <<"x", "-", "f", "o", "r", "w", "a", "r", "d", "e", "d", "-", "f", "o", "r">>, v |-> <<"8", ".", "8", ".", "8", ".", "8">>],
             [k |-> <<"X", "-", "M", "y", "-", "X", "-", "F", "o", "r", "w", "a", "r", "d", "e", "d", "-", "F", "o", "r">>, v |-> <<"1", ".", "2", ".", "3", ".", "4">>],
             [k |-> <<"H", "o", "s", "t">>, v |-> <<"w">>],
             [k |-> <<"C", "F", "-", "R", "a", "y">>, v |-> <<"r", "1">>],
             [k |-> <<"X", "-", "C", "u", "s", "t", "o", "m">>, v |-> <<"c">>],
             TargetHeaderLine}
        \* header lines the platform injects, in several casings, and one it does not:
        \*   Host: w   cf-connecting-ip: 7.7.7.7   CF-IPCountry: NL   CF-Ray: r1
        \*   Cf-Visitor: v   X-Custom: c
        PlatformLines ==
            {[k |-> <<"H", "o", "s", "t">>, v |-> <<"w">>],
             [k |-> <<"c", "f", "-", "c", "o", "n", "n", "e", "c", "t", "i", "n", "g", "-", "i", "p">>, v |-> <<"7", ".", "7", ".", "7", ".", "7">>],
             [k |-> <<"C", "F", "-", "I", "P", "C", "o", "u", "n", "t", "r", "y">>, v |-> <<"N", "L">>],
             [k |-> <<"C", "F", "-", "R", "a", "y">>, v |-> <<"r", "1">>],
             [k |-> <<"C", "f", "-", "V", "i", "s", "i", "t", "o", "r">>, v |-> <<"v">>],
             [k |-> <<"X", "-", "C", "u", "s", "t", "o", "m">>, v |-> <<"c">>]}
        \* requests that vary the URL: every path and query, with and without X-Target-URL
        UrlRequests ==
            {Request(m, RelayUrl(path, items), lines, "None") :
                m \in {"GET", "OPTIONS"}, path \in RelayPaths,
                items \in DistinctSeqs(QueryItems, MaxParams),
                lines \in {<<>>, <<TargetHeaderLine>>}}
        \* requests that vary method, header lines and body, with and without a url parameter
        HeaderRequests ==
            {Request(m, RelayUrl(<<"/">>, items), lines, b) :
                m \in Methods, items \in {<<>>, <<Q_PlainTarget>>},
                lines \in DistinctSeqs(HeaderLines, MaxHeaders), b \in {"None", "payload"}}
        \* requests that carry the platform's header lines
        PlatformRequests ==
            {Request("GET", RelayUrl(<<"/">>, <<Q_PlainTarget>>), lines, "None") :
                lines \in DistinctSeqs(PlatformLines, MaxHeaders)}
        \* requests whose X-Target-URL header names a target with a query of its own:
        \*   X-Target-URL: http://h/q?_cb=1&k=v
        ReservedRequests ==
            {Request("GET", RelayUrl(<<"/">>, items), <<[k |-> <<"X", "-", "T", "a", "r", "g", "e", "t", "-", "U", "R", "L">>, v |-> <<"h", "t", "t", "p", ":", "/", "/", "h", "/", "q", "?", "_", "c", "b", "=", "1", "&", "k", "=", "v">>]>>, "None") :
                items \in {<<>>, <<<<"_", "t", "=", "2">>>>}}
    IN  UrlRequests \cup HeaderRequests \cup PlatformRequests \cup ReservedRequests

\* the values random.randint(1, 255) returns in one generate_random_ip() call
RandomDraws ==
    {[i \in 1..4 |-> RandMin], [i \in 1..4 |-> RandMax],
     <<RandMax, RandMin, RandMax, RandMin>>, <<42, 7, 100, 9>>}

\* what the downstream fetch can resolve to; the second carries
\*   Content-Encoding: gzip   Content-Length: 123   X-Keep-This: true
\* and the third
\*   Transfer-Encoding: chunked   Access-Control-Allow-Origin: d.example   Set-Cookie: a=1
DownstreamResponses ==
    {[status |-> 200, headers |-> MockHeaders(<<>>), body |-> "stream1"],
     [status |-> 200,
      headers |-> MockHeaders(<<
          [k |-> <<"C", "o", "n", "t", "e", "n", "t", "-", "E", "n", "c", "o", "d", "i", "n", "g">>, v |-> <<"g", "z", "i", "p">>],
          [k |-> <<"C", "o", "n", "t", "e", "n", "t", "-", "L", "e", "n", "g", "t", "h">>, v |-> <<"1", "2", "3">>],
          [k |-> <<"X", "-", "K", "e", "e", "p", "-", "T", "h", "i", "s">>, v |-> <<"t", "r", "u", "e">>] >>),
      body |-> "stream2"],
     [status |-> 404,
      headers |-> MockHeaders(<<
          [k |-> <<"T", "r", "a", "n", "s", "f", "e", "r", "-", "E", "n", "c", "o", "d", "i", "n", "g">>, v |-> <<"c", "h", "u", "n", "k", "e", "d">>],
          [k |-> <<"A", "c", "c", "e", "s", "s", "-", "C", "o", "n", "t", "r", "o", "l", "-", "A", "l", "l", "o", "w", "-", "O", "r", "i", "g", "i", "n">>, v |-> <<"d", ".", "e", "x", "a", "m", "p", "l", "e">>],
          [k |-> <<"S", "e", "t", "-", "C", "o", "o", "k", "i", "e">>, v |-> <<"a", "=", "1">>] >>),
      body |-> "stream3"]}

NoRequest == Request("None", <<>>, <<>>, "None")

NoResponse ==
    [status |-> 0, headers |-> <<>>,
     body |-> [usage |-> <<>>, kind |-> "none", error |-> <<>>, stream |-> "None"]]

(***************************************************************************)
(* The client side: client/manager.py and client/transport.py              *)
(***************************************************************************)
\* httpx.URL(worker_url): scheme, authority, path, query and fragment
HttpxUrl(url) == urlsplit(url)

UrlHost(u) ==
    LET \* httpx.URL.host: the authority without its port
        UrlHostAt(netloc, i) == IF i = 0 THEN netloc ELSE Take(netloc, i - 1)
    IN  UrlHostAt(u.netloc, Find(u.netloc, ":"))

\* str(httpx.URL)
UrlStr(u) ==
    u.scheme \o <<":", "/", "/">> \o u.netloc \o u.path
    \o (IF u.query # <<>> THEN <<"?">> \o u.query ELSE <<>>)
    \o (IF u.fragment # <<>> THEN <<"#">> \o u.fragment ELSE <<>>)

\* UrlParams without the percent-encoding
UrlParams_unencoded(target_url) == S_url \o <<"=">> \o target_url

\* str(httpx.QueryParams({"url": target_url})): the one item, percent-encoded
UrlParams(target_url) == S_url \o <<"=">> \o quote(target_url)

\* parsed_worker.copy_with(params={"url": target_url}): the query is replaced
copy_with_params(parsed_worker, target_url) ==
    [parsed_worker EXCEPT !.query = UrlParams(target_url)]

RECURSIVE WithoutName(_, _)
WithoutName(h, lower) ==
    IF h = <<>> THEN <<>>
    ELSE (IF Lower(h[1].k) = lower THEN <<>> ELSE <<h[1]>>) \o WithoutName(Tail(h), lower)

\* request.headers[key] = val
HeadersSet(h, key, val) ==
    LET FirstNamed(h_, lower) ==
            IF \E i \in DOMAIN h_ : Lower(h_[i].k) = lower
            THEN CHOOSE i \in DOMAIN h_ :
                     Lower(h_[i].k) = lower /\ \A j \in 1..(i - 1) : Lower(h_[j].k) # lower
            ELSE 0
        \* httpx.Headers.__setitem__, i the position of the first entry of that name: that
        \* entry is replaced and later entries of the name are dropped, or one is appended
        HeadersSetAt(h_, key_, val_, i) ==
            IF i = 0 THEN Append(h_, [k |-> key_, v |-> val_])
            ELSE Take(h_, i - 1) \o <<[k |-> key_, v |-> val_]>> \o WithoutName(Drop(h_, i), Lower(key_))
    IN  HeadersSetAt(h, key, val, FirstNamed(h, Lower(key)))

\* RewriteWith leaving the Host header as it was
RewriteWith_keeps_host(req, proxied_url) == [req EXCEPT !.url = UrlStr(proxied_url)]

\* "Host"
\* handle_request, the rewrite of the request object, proxied_url the relay URL
RewriteWith(req, proxied_url) ==
    [req EXCEPT !.url = UrlStr(proxied_url),
                !.headers = HeadersSet(req.headers, <<"H", "o", "s", "t">>, UrlHost(proxied_url))]

\* handle_request, step 2: target_url = str(request.url), then the rewrite
Rewrite(req, worker_url) ==
    RewriteWith(req, copy_with_params(HttpxUrl(worker_url), req.url))

\* the most endpoints a generated pool holds
MaxWorkers == 2

\* endpoint base URLs: "https://w1.dev", "http://w2.dev:8787/r?z=1", "https://w3.dev/"
Endpoints ==
    {<<"h", "t", "t", "p", "s", ":", "/", "/", "w", "1", ".", "d", "e", "v">>,
     <<"h", "t", "t", "p", ":", "/", "/", "w", "2", ".", "d", "e", "v", ":", "8", "7", "8", "7", "/", "r", "?", "z", "=", "1">>,
     <<"h", "t", "t", "p", "s", ":", "/", "/", "w", "3", ".", "d", "e", "v", "/">>}

\* the caller's httpx.Request: httpx has set its Host header to the target's host
ClientRequest(method, url, body) ==
    [url |-> url,
     headers |-> << [k |-> <<"H", "o", "s", "t">>, v |-> UrlHost(HttpxUrl(url))],
                    [k |-> <<"U", "s", "e", "r", "-", "A", "g", "e", "n", "t">>, v |-> <<"u", "a">>] >>,
     body |-> body, method |-> method]

ClientRequests ==
    LET \* str(request.url) of the caller's requests:
        \*   "http://t/p"   "https://t/p?k=a&_cb=9"   "http://t/a%20b?q=a+b%26c#f"
        OriginalUrls ==
            {<<"h", "t", "t", "p", ":", "/", "/", "t", "/", "p">>,
             <<"h", "t", "t", "p", "s", ":", "/", "/", "t", "/", "p", "?", "k", "=", "a", "&", "_", "c", "b", "=", "9">>,
             <<"h", "t", "t", "p", ":", "/", "/", "t", "/", "a", "%", "2", "0", "b", "?", "q", "=", "a", "+", "b", "%", "2", "6", "c", "#", "f">>}
    IN  {ClientRequest(m, u, IF m = "POST" THEN "payload" ELSE "None") :
            m \in {"GET", "POST"}, u \in OriginalUrls}

NoClientRequest == [url |-> <<>>, headers |-> <<>>, body |-> "None", method |-> "None"]

NoOutcome == [kind |-> "none", value |-> "None"]

\* RewriteAsync without the Host header set
RewriteAsync_no_host(req, worker_url) ==
    [req EXCEPT !.url = UrlStr(copy_with_params(HttpxUrl(worker_url), req.url))]

\* AsyncProxyflareTransport.handle_async_request, the rewrite of the request
RewriteAsync(req, worker_url) ==
    RewriteWith(req, copy_with_params(HttpxUrl(worker_url), req.url))

\* a field a record of a pool source file does not have
Absent == "<absent>"

AbsentUrl == <<"<absent>">>

\* the relay implementation kinds a record's type may name
\* WorkerResultFile's schema for one record: name, url and type are strings,
\* type one of the kinds, created_at a number
ValidRecord(r) ==
    /\ r.name # Absent
    /\ r.url # AbsentUrl
    /\ r.type \in {"python", "rust", "js"}
    /\ r.created_at \notin {Absent, "soon"}

\* WorkerResultFile.model_validate_json(data) does not raise: the text is JSON
\* and every record fits the schema
model_validate_json(file) ==
    file.well_formed /\ \A i \in DOMAIN file.records : ValidRecord(file.records[i])

\* [record.url for record in result_file.root]
RecordUrls(records) == [i \in DOMAIN records |-> records[i].url]

\* load_from_file keeping the URLs of the records that fit the schema
load_from_file_partial(ws, file) ==
    IF ~file.exists THEN [raises |-> "FileNotFoundError: Worker file not found", workers |-> ws]
    ELSE IF ~model_validate_json(file)
    THEN [raises |-> "ValueError: Failed to parse worker file",
          workers |-> RecordUrls(SelectSeq(file.records, ValidRecord))]
    ELSE [raises |-> "None", workers |-> RecordUrls(file.records)]

\* load_from_file(path) on a manager whose workers are ws: what it raises and
\* the workers it leaves
load_from_file(ws, file) ==
    IF ~file.exists THEN [raises |-> "FileNotFoundError: Worker file not found", workers |-> ws]
    ELSE IF ~model_validate_json(file) THEN [raises |-> "ValueError: Failed to parse worker file", workers |-> ws]
    ELSE [raises |-> "None", workers |-> RecordUrls(file.records)]

\* __init__'s check of self.workers after the source is taken
InitCheck(loaded) ==
    IF loaded.raises # "None" THEN loaded
    ELSE IF loaded.workers = <<>> THEN [raises |-> "ValueError: No workers found in the provided source.", workers |-> <<>>]
    ELSE loaded

WorkerRecord(name, url, type, created_at) ==
    [url |-> url, name |-> name, type |-> type, created_at |-> created_at]

SourceFile(exists, well_formed, records) ==
    [well_formed |-> well_formed, records |-> records, exists |-> exists]

\* pool source files: none at the path; text that is not JSON; no records; one
\* and two good records; a record with only a url; a good record followed by one
\* without a name; a good record followed by one of an unknown type; a good
\* record followed by one whose created_at is no number
SourceFiles ==
    {SourceFile(FALSE, FALSE, <<>>),
     SourceFile(TRUE, FALSE, <<>>),
     SourceFile(TRUE, TRUE, <<>>),
     SourceFile(TRUE, TRUE, <<WorkerRecord("js-w1", <<"h", "t", "t", "p", "s", ":", "/", "/", "w", "3", ".", "d", "e", "v", "/">>, "js", "3.0")>>),
     SourceFile(TRUE, TRUE, <<WorkerRecord("w1", <<"h", "t", "t", "p", "s", ":", "/", "/", "w", "1", ".", "d", "e", "v">>, "python", "1.0"),
                              WorkerRecord("w2", <<"h", "t", "t", "p", ":", "/", "/", "w", "2", ".", "d", "e", "v", ":", "8", "7", "8", "7", "/", "r", "?", "z", "=", "1">>, "rust", "2.0")>>),
     SourceFile(TRUE, TRUE, <<WorkerRecord(Absent, <<"h", "t", "t", "p", "s", ":", "/", "/", "w", "1", ".", "d", "e", "v">>, Absent, Absent)>>),
     SourceFile(TRUE, TRUE, <<WorkerRecord("w3", <<"h", "t", "t", "p", "s", ":", "/", "/", "w", "3", ".", "d", "e", "v", "/">>, "python", "1.0"),
                              WorkerRecord(Absent, <<"h", "t", "t", "p", "s", ":", "/", "/", "w", "1", ".", "d", "e", "v">>, "rust", "2.0")>>),
     SourceFile(TRUE, TRUE, <<WorkerRecord("w3", <<"h", "t", "t", "p", "s", ":", "/", "/", "w", "3", ".", "d", "e", "v", "/">>, "python", "1.0"),
                              WorkerRecord("w1", <<"h", "t", "t", "p", "s", ":", "/", "/", "w", "1", ".", "d", "e", "v">>, "go", "2.0")>>),
     SourceFile(TRUE, TRUE, <<WorkerRecord("w2", <<"h", "t", "t", "p", ":", "/", "/", "w", "2", ".", "d", "e", "v", ":", "8", "7", "8", "7", "/", "r", "?", "z", "=", "1">>, "rust", "2.0"),
                              WorkerRecord("w1", <<"h", "t", "t", "p", "s", ":", "/", "/", "w", "1", ".", "d", "e", "v">>, "js", "soon")>>)}

NoFetchResult == [kind |-> "none", cause |-> <<>>, response |-> ([status |-> 0, headers |-> <<>>, body |-> "None"])]

(***************************************************************************)
(* Concurrent invocations of the relay handler                             *)
(***************************************************************************)
\* the most on_fetch invocations in flight at once
MaxInvocations == 2

\* an invocation's frame: its position, its arguments, the fetch it issued,
\* what the fetch gave and what on_fetch returned
IdleInvocation ==
    [response |-> NoResponse, pc |-> "idle", request |-> NoRequest, calls |-> <<>>,
     result |-> NoFetchResult]

\* on_fetch up to its first suspension point or return, in a frame of its own;
\* t is step 1's result and headers step 2's
Begin(req, t, headers) ==
    IF req.method = "OPTIONS"
    THEN [IdleInvocation EXCEPT !.pc = "returned", !.request = req,
                                !.response = PreflightResponse]
    ELSE IF t.raises
    THEN [IdleInvocation EXCEPT !.pc = "raised", !.request = req]
    ELSE IF Falsy(t.target)
    THEN [IdleInvocation EXCEPT !.pc = "returned", !.request = req,
                                !.response = MissingTargetResponse]
    ELSE [IdleInvocation EXCEPT !.pc = "fetching", !.request = req,
                                !.calls = <<FetchCall(req, t.target, headers)>>]

\* on_fetch from the point where await fetch(...) resumes to its return
Settle(frame, result, e) ==
    [frame EXCEPT !.pc = "returned", !.result = result,
                  !.response = IF result.kind = "response"
                               THEN ProxiedResponse(result.response, e)
                               ELSE ProxyErrorResponse(result.cause)]

\* Resume with the fetch result kept in a variable all invocations share
Resume_shared_result(frames, i, result, e) ==
    [j \in DOMAIN frames |->
        IF frames[j].pc = "fetching" THEN Settle(frames[j], result, e) ELSE frames[j]]

\* the frames after invocation i's fetch gave result: only i's frame resumes
Resume(frames, i, result, e) == [frames EXCEPT ![i] = Settle(frames[i], result, e)]

\* what the runtime can hand to concurrent invocations:
\*   GET http://w/?url=http://t/p
\*   POST http://w/ with X-Target-URL: http://h/q, X-My-X-Forwarded-For: 1.2.3.4 and a body
\*   GET http://w/x          OPTIONS http://w/
ConcurrentRequests ==
    {Request("GET", RelayUrl(<<"/">>, <<Q_PlainTarget>>), <<>>, "None"),
     Request("POST", RelayUrl(<<"/">>, <<>>), <<TargetHeaderLine, [k |-> <<"X", "-", "M", "y", "-", "X", "-", "F", "o", "r", "w", "a", "r", "d", "e", "d", "-", "F", "o", "r">>, v |-> <<"1", ".", "2", ".", "3", ".", "4">>]>>, "payload"),
     Request("GET", RelayUrl(<<"/", "x">>, <<>>), <<>>, "None"),
     Request("OPTIONS", RelayUrl(<<"/">>, <<>>), <<>>, "None")}

(***************************************************************************)
(* The deployment service                                                  *)
(***************************************************************************)
\* the most platform delete calls one service issues
MaxDeleteCalls == 2

\* stop_after_attempt(3)
StopAfterAttempt == 3

\* no WorkerService yet; of a service: its prefix, its cached _subdomain, the
\* names it passed to client.workers.scripts.delete, and the argument and the
\* exception of its last delete_worker call
NoService ==
    [name |-> None, worker_prefix |-> None, subdomain |-> None, delete_calls |-> <<>>,
     raised |-> "None"]

\* OwnsName without the dash after the prefix
OwnsName_no_dash(worker_prefix, name) == StartsWith(name, worker_prefix)

\* name.startswith(f"{self.worker_prefix}-")
OwnsName(worker_prefix, name) == StartsWith(name, worker_prefix \o <<"-">>)

\* WorkerService.delete_worker(name); api_ok tells whether the platform call succeeds
delete_worker(svc, name, api_ok) ==
    IF ~OwnsName(svc.worker_prefix, name)
    THEN [svc EXCEPT !.name = name, !.raised = "ValueError"]
    ELSE [svc EXCEPT !.name = name, !.delete_calls = Append(@, name),
                     !.raised = IF api_ok THEN "None" ELSE "RuntimeError"]

\* the script names of the account, in the order the platform lists them:
\* proxyflare-a, proxyflarex-b, proxyflare, proxyflare-b, myapp-1, some-other-worker
WorkerNames ==
    <<<<"p", "r", "o", "x", "y", "f", "l", "a", "r", "e", "-", "a">>,
      <<"p", "r", "o", "x", "y", "f", "l", "a", "r", "e", "x", "-", "b">>,
      <<"p", "r", "o", "x", "y", "f", "l", "a", "r", "e">>,
      <<"p", "r", "o", "x", "y", "f", "l", "a", "r", "e", "-", "b">>,
      <<"m", "y", "a", "p", "p", "-", "1">>,
      <<"s", "o", "m", "e", "-", "o", "t", "h", "e", "r", "-", "w", "o", "r", "k", "e", "r">>>>

\* WorkerService.list_workers(): the ids of the account's scripts that carry the prefix
list_workers(worker_prefix, scripts) ==
    SelectSeq(WorkerNames, LAMBDA name : name \in scripts /\ OwnsName(worker_prefix, name))

\* no delete --all running; of a run: where it is, the --force flag, the listing
\* shown to the user, the listing _run() works on, the loop's position, and the
\* deleted and failed names
NoCli ==
    [workers |-> <<>>, pc |-> "idle", force |-> FALSE, snapshot |-> <<>>, index |-> 0,
     deleted |-> <<>>, failed |-> <<>>]

\* no deploy_worker call in progress; of a call: the step it is at, config.name,
\* the attempt's number, the platform calls made and what the call gave
NoDeployment == [name |-> None, pc |-> "idle", calls |-> <<>>, result |-> None, attempt |-> 0]

\* AttemptFailed allowing one attempt more
AttemptFailed_one_more(d) ==
    IF d.attempt <= StopAfterAttempt
    THEN [d EXCEPT !.calls = Append(@, [attempt |-> d.attempt, step |-> d.pc, ok |-> FALSE]),
                   !.attempt = @ + 1, !.pc = "update"]
    ELSE [d EXCEPT !.calls = Append(@, [attempt |-> d.attempt, step |-> d.pc, ok |-> FALSE]),
                   !.pc = "failed", !.result = <<"RetryError">>]

\* a step of the attempt raised: RuntimeError inside deploy_worker, then
\* tenacity starts the next attempt or, after the last one, raises RetryError
AttemptFailed(d) ==
    IF d.attempt < StopAfterAttempt
    THEN [d EXCEPT !.calls = Append(@, [attempt |-> d.attempt, step |-> d.pc, ok |-> FALSE]),
                   !.attempt = @ + 1, !.pc = "update"]
    ELSE [d EXCEPT !.calls = Append(@, [attempt |-> d.attempt, step |-> d.pc, ok |-> FALSE]),
                   !.pc = "failed", !.result = <<"RetryError">>]

\* the most times a caller forwards one request object
MaxForwards == 2

(***************************************************************************)
(* State                                                                   *)
(***************************************************************************)
VARIABLES
    pc,              \* the on_fetch invocation: idle, fetching, returned, raised
    env,             \* the env bindings on_fetch is called with
    request,         \* the request on_fetch is called with
    target_url,      \* on_fetch's local target_url
    out_headers,     \* on_fetch's local headers
    fetch_calls,     \* the fetch(target_url, init_js) calls of this invocation
    fetch_result,    \* what await fetch(...) gave: nothing yet, a response, an exception
    response,        \* the Response on_fetch returned
    manager,         \* the ProxyflareWorkersManager: none, ready, or failed
    manager_error,   \* what the manager's last __init__ or load_from_file raised
    workers,         \* manager.workers
    caller_list,     \* the list object the caller passed to __init__
    shares_list,     \* whether manager.workers is that same list object
    last_file,       \* the file the last load_from_file call read
    transport,       \* which transport forwards: sync or async
    cpc,             \* the forward: idle, forwarding, done
    caller_request,  \* the caller's httpx.Request object
    original_url,    \* handle_request's local target_url, str(request.url)
    worker_url,      \* handle_request's local worker_url
    get_worker_calls, \* what each manager.get_worker() call of this forward gave
    pool_calls,      \* the requests handed to self._pool, in order
    pool_result,     \* what self._pool returned or raised
    outcome,         \* what the forward returned or raised
    invocations,     \* the frames of the on_fetch invocations in flight together
    service,         \* the WorkerService
    deployment,      \* the deploy_worker call in progress
    platform,        \* the scripts of the platform account
    cli              \* the delete --all run

relayVars ==
    <<pc, env, request, target_url, out_headers, fetch_calls, fetch_result, response>>

managerVars == <<manager, manager_error, workers, caller_list, shares_list, last_file>>

forwardVars ==
    <<transport, cpc, caller_request, original_url, worker_url, get_worker_calls,
      pool_calls, pool_result, outcome>>

clientVars == <<managerVars, forwardVars>>

toolVars == <<service, deployment, platform, cli>>

vars == <<relayVars, clientVars, invocations, toolVars>>

\* the env bindings of the worker: all unbound, or all bound
Init ==
    /\ pc = "idle"
    /\ env \in {[CORS_ORIGIN |-> Unbound, CORS_METHODS |-> Unbound, CORS_ALLOWED_HEADERS |-> Unbound], [CORS_ORIGIN |-> <<"o", ".", "e", "x", "a", "m", "p", "l", "e">>, CORS_METHODS |-> <<"G", "E", "T">>, CORS_ALLOWED_HEADERS |-> <<"X", "-", "A">>]}
    /\ request = NoRequest
    /\ target_url = None
    /\ out_headers = <<>>
    /\ fetch_calls = <<>>
    /\ fetch_result = NoFetchResult
    /\ response = NoResponse
    /\ manager = "none"
    /\ manager_error = "None"
    /\ workers = <<>>
    /\ caller_list = <<>>
    /\ shares_list = FALSE
    /\ last_file = (SourceFile(FALSE, FALSE, <<>>))
    /\ transport = "sync"
    /\ cpc = "idle"
    /\ invocations = [i \in 1..MaxInvocations |-> IdleInvocation]
    /\ service = NoService
    /\ deployment = NoDeployment
    /\ platform = {}
    /\ cli = NoCli
    /\ caller_request = NoClientRequest
    /\ original_url = None
    /\ worker_url = None
    /\ get_worker_calls = <<>>
    /\ pool_calls = <<>>
    /\ pool_result = NoOutcome
    /\ outcome = NoOutcome

(***************************************************************************)
(* The relay handler's steps                                               *)
(***************************************************************************)
\* OnFetchSteps without the preflight branch
OnFetchSteps_no_preflight(req, t, headers) ==
    /\ request' = req
    /\ IF t.raises
       THEN /\ pc' = "raised"
            /\ response' = NoResponse
            /\ target_url' = None
            /\ out_headers' = <<>>
            /\ fetch_calls' = <<>>
       ELSE IF Falsy(t.target)
       THEN /\ pc' = "returned"
            /\ response' = MissingTargetResponse
            /\ target_url' = t.target
            /\ out_headers' = <<>>
            /\ fetch_calls' = <<>>
       ELSE /\ pc' = "fetching"
            /\ response' = NoResponse
            /\ target_url' = t.target
            /\ out_headers' = headers
            /\ fetch_calls' = Append(fetch_calls, FetchCall(req, t.target, headers))
    /\ fetch_result' = NoFetchResult
    /\ UNCHANGED <<env, clientVars, invocations, toolVars>>

\* on_fetch up to its first suspension point or return; t is step 1's result
\* and headers step 2's
OnFetchSteps(req, t, headers) ==
    /\ request' = req
    /\ IF req.method = "OPTIONS"
       THEN /\ pc' = "returned"
            /\ response' = PreflightResponse
            /\ target_url' = None
            /\ out_headers' = <<>>
            /\ fetch_calls' = <<>>
       ELSE IF t.raises
       THEN /\ pc' = "raised"
            /\ response' = NoResponse
            /\ target_url' = None
            /\ out_headers' = <<>>
            /\ fetch_calls' = <<>>
       ELSE IF Falsy(t.target)
       THEN /\ pc' = "returned"
            /\ response' = MissingTargetResponse
            /\ target_url' = t.target
            /\ out_headers' = <<>>
            /\ fetch_calls' = <<>>
       ELSE /\ pc' = "fetching"
            /\ response' = NoResponse
            /\ target_url' = t.target
            /\ out_headers' = headers
            /\ fetch_calls' = Append(fetch_calls, FetchCall(req, t.target, headers))
    /\ fetch_result' = NoFetchResult
    /\ UNCHANGED <<env, clientVars, invocations, toolVars>>

\* on_fetch(request, env) is called with req; draws are the random values drawn
OnFetch(req, draws) == OnFetchSteps(req, ResolveTarget(req), PrepareHeaders(req, draws))

\* the runtime calls on_fetch with some request
Receive ==
    /\ pc = "idle"
    /\ \E req \in Requests, draws \in RandomDraws : OnFetch(req, draws)

\* await fetch(...) resolves: step 6 and the return
FetchResolves(resp) ==
    /\ pc = "fetching"
    /\ pc' = "returned"
    /\ fetch_result' = [kind |-> "response", cause |-> <<>>, response |-> resp]
    /\ response' = ProxiedResponse(resp, env)
    /\ UNCHANGED <<env, request, target_url, out_headers, fetch_calls, clientVars, invocations, toolVars>>

\* FetchRejects fetching again instead of returning the 502
FetchRejects_retry(cause) ==
    /\ pc = "fetching"
    /\ pc' = "fetching"
    /\ fetch_result' = [kind |-> "raised", cause |-> cause, response |-> ([status |-> 0, headers |-> <<>>, body |-> "None"])]
    /\ fetch_calls' = Append(fetch_calls, fetch_calls[1])
    /\ UNCHANGED <<env, request, target_url, out_headers, response, clientVars, invocations, toolVars>>

\* await fetch(...) raises: the except branch
FetchRejects(cause) ==
    /\ pc = "fetching"
    /\ pc' = "returned"
    /\ fetch_result' = [kind |-> "raised", cause |-> cause, response |-> ([status |-> 0, headers |-> <<>>, body |-> "None"])]
    /\ response' = ProxyErrorResponse(cause)
    /\ UNCHANGED <<env, request, target_url, out_headers, fetch_calls, clientVars, invocations, toolVars>>

\* the runtime delivers what on_fetch returned or raised; the invocation is over
Deliver ==
    /\ pc \in {"returned", "raised"}
    /\ pc' = "idle"
    /\ request' = NoRequest
    /\ target_url' = None
    /\ out_headers' = <<>>
    /\ fetch_calls' = <<>>
    /\ fetch_result' = NoFetchResult
    /\ response' = NoResponse
    /\ UNCHANGED <<env, clientVars, invocations, toolVars>>

\* str(e) of what the downstream fetch can raise: "Network Error", "timeout"
Next ==
    \/ Receive
    \/ \E resp \in DownstreamResponses : FetchResolves(resp)
    \/ \E cause \in {<<"N", "e", "t", "w", "o", "r", "k", " ", "E", "r", "r", "o", "r">>, <<"t", "i", "m", "e", "o", "u", "t">>} : FetchRejects(cause)
    \/ Deliver

\* the relay handler, one invocation at a time
Spec == Init /\ [][Next]_vars

(***************************************************************************)
(* The client's steps                                                      *)
(***************************************************************************)
\* Construct without the check for an empty pool
Construct_accepts_empty(source) ==
    /\ manager = "none"
    /\ workers' = source
    /\ caller_list' = source
    /\ shares_list' = TRUE
    /\ manager' = "ready"
    /\ manager_error' = "None"
    /\ UNCHANGED <<last_file, forwardVars, relayVars, invocations, toolVars>>

\* ProxyflareWorkersManager(source), source a list: self.workers is that list
\* object; an empty one raises ValueError
Construct(source) ==
    /\ manager = "none"
    /\ workers' = source
    /\ caller_list' = source
    /\ shares_list' = TRUE
    /\ manager' = IF source = <<>> THEN "failed" ELSE "ready"
    /\ manager_error' = IF source = <<>> THEN "ValueError: No workers found in the provided source." ELSE "None"
    /\ UNCHANGED <<last_file, forwardVars, relayVars, invocations, toolVars>>

\* __init__ with a path, loaded the outcome of load_from_file and of the check
ConstructLoaded(file, loaded) ==
    /\ workers' = loaded.workers
    /\ manager' = IF loaded.raises = "None" THEN "ready" ELSE "failed"
    /\ manager_error' = loaded.raises
    /\ last_file' = file
    /\ UNCHANGED <<caller_list, shares_list, forwardVars, relayVars, invocations, toolVars>>

\* ProxyflareWorkersManager(source), source a path
ConstructFromFile(file) ==
    /\ manager = "none"
    /\ ConstructLoaded(file, InitCheck(load_from_file(<<>>, file)))

\* a later manager.load_from_file(path), loaded its outcome: self.workers becomes
\* a new list only when nothing was raised
Loaded(file, loaded) ==
    /\ workers' = loaded.workers
    /\ shares_list' = (shares_list /\ loaded.raises # "None")
    /\ manager_error' = loaded.raises
    /\ last_file' = file
    /\ UNCHANGED <<manager, caller_list, forwardVars, relayVars, invocations, toolVars>>

\* manager.load_from_file(path) on a constructed manager, between forwards
LoadFromFile(file) ==
    /\ manager = "ready"
    /\ cpc = "idle"
    /\ Loaded(file, load_from_file(workers, file))

\* the caller changes the list it passed in: it removes the last item, or appends
\* one; the manager sees the change while it holds the same list object
CallerChangesList(changed) ==
    /\ manager = "ready"
    /\ shares_list
    /\ cpc = "idle"
    /\ caller_list' = changed
    /\ workers' = changed
    /\ UNCHANGED <<manager, manager_error, shares_list, last_file, forwardVars, relayVars, invocations, toolVars>>

CallerRemoves ==
    /\ caller_list # <<>>
    /\ CallerChangesList(Take(caller_list, Len(caller_list) - 1))

CallerAppends(w) ==
    /\ Len(caller_list) < MaxWorkers
    /\ \A i \in DOMAIN caller_list : caller_list[i] # w
    /\ CallerChangesList(Append(caller_list, w))

\* the caller builds a request and picks the transport that will forward it
NewRequest(req, kind) ==
    /\ manager = "ready"
    /\ cpc = "idle"
    /\ caller_request = NoClientRequest
    /\ caller_request' = req
    /\ transport' = kind
    /\ UNCHANGED <<managerVars, cpc, original_url, worker_url, get_worker_calls,
                   pool_calls, pool_result, outcome, relayVars, invocations, toolVars>>

\* Forward rewriting a copy and leaving the caller's request object as it was
Forward_on_copy(w, rewritten) ==
    /\ worker_url' = w
    /\ get_worker_calls' = Append(get_worker_calls, w)
    /\ original_url' = caller_request.url
    /\ pool_calls' = Append(pool_calls, rewritten)
    /\ cpc' = "forwarding"
    /\ UNCHANGED <<managerVars, transport, caller_request, pool_result, outcome, relayVars,
                   invocations, toolVars>>

\* the body of handle_request and of handle_async_request up to the call of
\* self._pool; w is what secrets.choice drew in manager.get_worker() and
\* rewritten the request after the rewrite, done on the request object itself
Forward(w, rewritten) ==
    /\ worker_url' = w
    /\ get_worker_calls' = Append(get_worker_calls, w)
    /\ original_url' = caller_request.url
    /\ caller_request' = rewritten
    /\ pool_calls' = Append(pool_calls, rewritten)
    /\ cpc' = "forwarding"
    /\ UNCHANGED <<managerVars, transport, pool_result, outcome, relayVars, invocations, toolVars>>

\* what get_worker leaves in the call list when it raises
\* manager.get_worker() raises on an empty pool and the forward ends with it
ForwardRaises ==
    /\ get_worker_calls' = Append(get_worker_calls, <<"ValueError">>)
    /\ cpc' = "done"
    /\ outcome' = [kind |-> "raised", value |-> "ValueError: No workers available."]
    /\ UNCHANGED <<managerVars, transport, caller_request, original_url, worker_url,
                   pool_calls, pool_result, relayVars, invocations, toolVars>>

\* ProxyflareTransport.handle_request(request)
HandleRequest ==
    /\ transport = "sync"
    /\ cpc = "idle"
    /\ caller_request # NoClientRequest
    /\ IF workers = <<>> THEN ForwardRaises
       ELSE \E i \in DOMAIN workers :
                Forward(workers[i], Rewrite(caller_request, workers[i]))

\* AsyncProxyflareTransport.handle_async_request(request)
HandleAsyncRequest ==
    /\ transport = "async"
    /\ cpc = "idle"
    /\ caller_request # NoClientRequest
    /\ IF workers = <<>> THEN ForwardRaises
       ELSE \E i \in DOMAIN workers :
                Forward(workers[i], RewriteAsync(caller_request, workers[i]))

\* self._pool.handle_request(request) returns: the response is returned as it is
PoolReturns(resp) ==
    /\ cpc = "forwarding"
    /\ cpc' = "done"
    /\ pool_result' = [kind |-> "response", value |-> resp]
    /\ outcome' = [kind |-> "response", value |-> resp]
    /\ UNCHANGED <<managerVars, transport, caller_request, original_url, worker_url,
                   get_worker_calls, pool_calls, relayVars, invocations, toolVars>>

\* PoolRaises drawing another endpoint and calling the pool again
PoolRaises_retry(exc) ==
    /\ cpc = "forwarding"
    /\ pool_result' = [kind |-> "raised", value |-> exc]
    /\ get_worker_calls' = Append(get_worker_calls, workers[1])
    /\ pool_calls' = Append(pool_calls, pool_calls[1])
    /\ UNCHANGED <<managerVars, transport, cpc, caller_request, original_url,
                   worker_url, outcome, relayVars, invocations, toolVars>>

\* self._pool.handle_request(request) raises: the exception propagates
PoolRaises(exc) ==
    /\ cpc = "forwarding"
    /\ cpc' = "done"
    /\ pool_result' = [kind |-> "raised", value |-> exc]
    /\ outcome' = [kind |-> "raised", value |-> exc]
    /\ UNCHANGED <<managerVars, transport, caller_request, original_url, worker_url,
                   get_worker_calls, pool_calls, relayVars, invocations, toolVars>>

\* the caller has the outcome and lets go of the request
Finish ==
    /\ cpc = "done"
    /\ cpc' = "idle"
    /\ caller_request' = NoClientRequest
    /\ original_url' = None
    /\ worker_url' = None
    /\ get_worker_calls' = <<>>
    /\ pool_calls' = <<>>
    /\ pool_result' = NoOutcome
    /\ outcome' = NoOutcome
    /\ UNCHANGED <<managerVars, transport, relayVars, invocations, toolVars>>

\* the lists a manager is constructed with, the empty one included
\* what the underlying httpx transport returns, and what it raises
ClientNext ==
    \/ \E source \in (DistinctSeqs(Endpoints, MaxWorkers)) : Construct(source)
    \/ \E file \in SourceFiles : ConstructFromFile(file)
    \/ \E file \in SourceFiles : LoadFromFile(file)
    \/ CallerRemoves
    \/ \E w \in Endpoints : CallerAppends(w)
    \/ \E req \in ClientRequests, kind \in {"sync", "async"} : NewRequest(req, kind)
    \/ HandleRequest
    \/ HandleAsyncRequest
    \/ \E resp \in {"200 OK", "502 Bad Gateway"} : PoolReturns(resp)
    \/ \E exc \in {"ConnectError", "ReadTimeout"} : PoolRaises(exc)
    \/ Finish

\* the manager and the transports, one forward at a time
ClientSpec == Init /\ [][ClientNext]_vars


(***************************************************************************)
(* Concurrent invocations: actions                                         *)
(***************************************************************************)
\* the runtime calls on_fetch in frame i while other invocations are suspended
InvocationBegins(i, req, draws) ==
    /\ invocations[i].pc = "idle"
    /\ invocations' = [invocations EXCEPT
                           ![i] = Begin(req, ResolveTarget(req), PrepareHeaders(req, draws))]
    /\ UNCHANGED <<relayVars, clientVars, toolVars>>

\* the fetch invocation i awaits resolves or raises, and i runs to its return
FetchSettles(i, result) ==
    /\ invocations[i].pc = "fetching"
    /\ invocations' = Resume(invocations, i, result, env)
    /\ UNCHANGED <<relayVars, clientVars, toolVars>>

\* the runtime delivers what invocation i returned; its frame is gone
InvocationEnds(i) ==
    /\ invocations[i].pc \in {"returned", "raised"}
    /\ invocations' = [invocations EXCEPT ![i] = IdleInvocation]
    /\ UNCHANGED <<relayVars, clientVars, toolVars>>

ConcurrentNext ==
    \E i \in 1..MaxInvocations :
        \/ \E req \in ConcurrentRequests, draws \in RandomDraws : InvocationBegins(i, req, draws)
        \/ \E resp \in DownstreamResponses :
               FetchSettles(i, [kind |-> "response", cause |-> <<>>, response |-> resp])
        \/ \E cause \in {<<"N", "e", "t", "w", "o", "r", "k", " ", "E", "r", "r", "o", "r">>, <<"t", "i", "m", "e", "o", "u", "t">>} :
               FetchSettles(i, [kind |-> "raised", cause |-> cause, response |-> ([status |-> 0, headers |-> <<>>, body |-> "None"])])
        \/ InvocationEnds(i)

\* relay handler invocations interleaved at their suspension point
ConcurrentSpec == Init /\ [][ConcurrentNext]_vars

(***************************************************************************)
(* The deployment service: actions                                         *)
(***************************************************************************)
\* WorkerService(client, account_id, worker_prefix)
NewWorkerService(worker_prefix) ==
    /\ service = NoService
    /\ service' = [NoService EXCEPT !.worker_prefix = worker_prefix]
    /\ UNCHANGED <<relayVars, clientVars, invocations, deployment, platform, cli>>

\* await service.delete_worker(name)
DeleteWorker(name, api_ok) ==
    /\ service # NoService
    /\ Len(service.delete_calls) < MaxDeleteCalls
    /\ service' = delete_worker(service, name, api_ok)
    /\ UNCHANGED <<relayVars, clientVars, invocations, deployment, platform, cli>>

\* await service.deploy_worker(config): the first attempt starts
DeployWorker(name) ==
    /\ service # NoService
    /\ deployment.pc = "idle"
    /\ deployment' = [NoDeployment EXCEPT !.pc = "update", !.name = name, !.attempt = 1]
    /\ UNCHANGED <<relayVars, clientVars, invocations, service, platform, cli>>

\* the step the attempt is at succeeds: scripts.update, then subdomain.create,
\* then ensure_subdomain, which caches what the platform answers, and the
\* return of f"https://{config.name}.{subdomain}.workers.dev"
StepSucceeds(subdomain) ==
    /\ deployment.pc \in {"update", "enable", "lookup"}
    /\ deployment' =
           [deployment EXCEPT
                !.calls = Append(@, [attempt |-> deployment.attempt, step |-> deployment.pc,
                                     ok |-> TRUE]),
                !.pc = IF @ = "update" THEN "enable" ELSE IF @ = "enable" THEN "lookup"
                       ELSE "returned",
                !.result = IF deployment.pc # "lookup" THEN None
                           ELSE <<"h", "t", "t", "p", "s", ":", "/", "/">> \o deployment.name
                                \o <<".">>
                                \o (IF service.subdomain # None THEN service.subdomain
                                    ELSE subdomain)
                                \o <<".", "w", "o", "r", "k", "e", "r", "s", ".", "d", "e", "v">>]
    /\ service' = IF deployment.pc = "lookup" /\ service.subdomain = None
                  THEN [service EXCEPT !.subdomain = subdomain]
                  ELSE service
    /\ UNCHANGED <<relayVars, clientVars, invocations, platform, cli>>

\* the step the attempt is at raises; a cached subdomain cannot fail to be found
StepFails ==
    /\ deployment.pc \in {"update", "enable", "lookup"}
    /\ ~(deployment.pc = "lookup" /\ service.subdomain # None)
    /\ deployment' = AttemptFailed(deployment)
    /\ UNCHANGED <<relayVars, clientVars, invocations, service, platform, cli>>

\* deploy_worker has returned the URL or raised RetryError
DeployEnds ==
    /\ deployment.pc \in {"returned", "failed"}
    /\ deployment' = NoDeployment
    /\ UNCHANGED <<relayVars, clientVars, invocations, service, platform, cli>>

ServiceNext ==
    \/ \E worker_prefix \in {<<"p", "r", "o", "x", "y", "f", "l", "a", "r", "e">>, <<"m", "y", "a", "p", "p">>} : NewWorkerService(worker_prefix)
    \/ \E k \in DOMAIN WorkerNames, api_ok \in BOOLEAN : DeleteWorker(WorkerNames[k], api_ok)
    \/ \E name \in {<<"t", "e", "s", "t", "-", "w", "o", "r", "k", "e", "r">>} : DeployWorker(name)
    \/ StepSucceeds(<<"t", "e", "s", "t", "-", "s", "u", "b">>)
    \/ StepFails
    \/ DeployEnds

\* one WorkerService, its delete_worker and deploy_worker calls
ServiceSpec == Init /\ [][ServiceNext]_vars

(***************************************************************************)
(* delete --all                                                            *)
(***************************************************************************)
\* _delete_all_workers(ctx, force) up to the confirmation: the listing shown to
\* the user, WorkerError when it cannot be had, the return when it is empty
DeleteAllBegins(force, list_ok) ==
    /\ service # NoService
    /\ cli.pc = "idle"
    /\ cli' = IF ~list_ok THEN [cli EXCEPT !.pc = "raised", !.force = force]
              ELSE [cli EXCEPT
                        !.force = force,
                        !.snapshot = list_workers(service.worker_prefix, platform),
                        !.pc = IF list_workers(service.worker_prefix, platform) = <<>>
                               THEN "returned"
                               ELSE IF force THEN "run" ELSE "confirm"]
    /\ UNCHANGED <<relayVars, clientVars, invocations, service, deployment, platform>>

\* Confirm.ask: declined raises typer.Exit(0)
Confirms(answer) ==
    /\ cli.pc = "confirm"
    /\ cli' = [cli EXCEPT !.pc = IF answer THEN "run" ELSE "cancelled"]
    /\ UNCHANGED <<relayVars, clientVars, invocations, service, deployment, platform>>

\* _run(): workers = await ctx.service.list_workers(), a second listing whose
\* failure nothing catches
Relists(list_ok) ==
    /\ cli.pc = "run"
    /\ cli' = IF ~list_ok THEN [cli EXCEPT !.pc = "raised"]
              ELSE [cli EXCEPT !.workers = list_workers(service.worker_prefix, platform),
                               !.index = 1, !.pc = "deleting"]
    /\ UNCHANGED <<relayVars, clientVars, invocations, service, deployment, platform>>

\* one pass of the loop of _run(): delete_worker(name), the platform removing the
\* script when it has it and the call goes through
DeleteNext(api_ok) ==
    /\ cli.pc = "deleting"
    /\ cli.index <= Len(cli.workers)
    /\ service' = delete_worker(service, cli.workers[cli.index],
                                api_ok /\ cli.workers[cli.index] \in platform)
    /\ platform' = IF service'.raised = "None" THEN platform \ {cli.workers[cli.index]}
                   ELSE platform
    /\ cli' = IF service'.raised = "None"
              THEN [cli EXCEPT !.index = @ + 1, !.deleted = Append(@, cli.workers[cli.index])]
              ELSE [cli EXCEPT !.index = @ + 1, !.failed = Append(@, cli.workers[cli.index])]
    /\ UNCHANGED <<relayVars, clientVars, invocations, deployment>>

\* the loop is over: the two counts are printed
Reports ==
    /\ cli.pc = "deleting"
    /\ cli.index > Len(cli.workers)
    /\ cli' = [cli EXCEPT !.pc = "reported"]
    /\ UNCHANGED <<relayVars, clientVars, invocations, service, deployment, platform>>

\* somebody else creates or removes a script of the account
PlatformChanges(name) ==
    /\ platform' = IF name \in platform THEN platform \ {name} ELSE platform \cup {name}
    /\ UNCHANGED <<relayVars, clientVars, invocations, service, deployment, cli>>

DeleteAllNext ==
    \/ \E worker_prefix \in {<<"p", "r", "o", "x", "y", "f", "l", "a", "r", "e">>, <<"m", "y", "a", "p", "p">>} : NewWorkerService(worker_prefix)
    \/ \E force \in BOOLEAN, list_ok \in BOOLEAN : DeleteAllBegins(force, list_ok)
    \/ \E answer \in BOOLEAN : Confirms(answer)
    \/ \E list_ok \in BOOLEAN : Relists(list_ok)
    \/ \E api_ok \in BOOLEAN : DeleteNext(api_ok)
    \/ Reports
    \/ \E k \in DOMAIN WorkerNames : PlatformChanges(WorkerNames[k])

\* one run of delete --all on an account other parties change meanwhile
DeleteAllSpec == Init /\ [][DeleteAllNext]_vars

(***************************************************************************)
(* One request object forwarded more than once                             *)
(***************************************************************************)
\* the caller has the outcome and hands the same request object, as the
\* transport left it, to the transport again
ForwardsAgain ==
    LET RECURSIVE Forwards(_)
        \* how many times a URL has been wrapped into a relay URL
        Forwards(url) ==
            IF StartsWith(urlsplit(url).query, <<"u", "r", "l", "=">>)
            THEN 1 + Forwards(unquote(Drop(urlsplit(url).query, Len(<<"u", "r", "l", "=">>))))
            ELSE 0
    IN  /\ cpc = "done"
        /\ Forwards(caller_request.url) < MaxForwards
        /\ cpc' = "idle"
        /\ original_url' = None
        /\ worker_url' = None
        /\ get_worker_calls' = <<>>
        /\ pool_calls' = <<>>
        /\ pool_result' = NoOutcome
        /\ outcome' = NoOutcome
        /\ UNCHANGED <<managerVars, transport, caller_request, relayVars, invocations, toolVars>>

RepeatNext ==
    \/ \E w1, w2 \in Endpoints : w1 # w2 /\ Construct(<<w1, w2>>)
    \/ \E req \in ClientRequests, kind \in {"sync", "async"} : NewRequest(req, kind)
    \/ HandleRequest
    \/ HandleAsyncRequest
    \/ PoolReturns("200 OK")
    \/ PoolRaises("ReadTimeout")
    \/ ForwardsAgain
    \/ Finish

\* the manager and the transports, a caller reusing its request objects
RepeatSpec == Init /\ [][RepeatNext]_vars
C2_UrlRoundTrip ==
    (cpc \in {"forwarding", "done"} /\ get_worker_calls # <<<<"ValueError">>>>) =>
        /\ Len(pool_calls) = 1
        /\ LET query_params == parse_qs(urlsplit(pool_calls[1].url).query)
           IN  /\ DictHas(query_params, S_url)
               /\ DictGet(query_params, S_url) = <<original_url>>

\* C2's case: the async transport forwards a request whose URL has a query of
\* two items and a fragment-free path, through an endpoint with a query of its own
C2_Witness ==
    /\ cpc = "forwarding"
    /\ transport = "async"
    /\ Contains(original_url, "&")
    /\ Contains(worker_url, "?")
    /\ pool_calls # <<>>

\* C3: when the target is taken from the url parameter, the query of the URL
\* fetched names every non-control parameter of the relay request and every
\* non-control parameter of the target's own query, and names none of url, _cb, _t
C3_QueryPreserved ==
    LET Names(qs) == IF qs = <<>> THEN {}
                     ELSE {Split(item, "=")[1] : item \in Range(Split(qs, "&"))}
        relay_qs == urlparse(request.url).query
        query_params == parse_qs(relay_qs)
    IN  (pc = "fetching" /\ DictHas(query_params, S_url)
         /\ HeadersGet(request.headers, H_XTargetURL) = None) =>
            LET target_qs == urlparse(DictGet(query_params, S_url)[1]).query
                sent == Names(urlparse(fetch_calls[1].url).query)
            IN  /\ (Names(relay_qs) \cup Names(target_qs)) \ FILTERED_PARAMS \subseteq sent
                /\ sent \cap FILTERED_PARAMS = {}

\* C4: a request that resolves a target and carries neither X-Forwarded-For in
\* any casing nor X-My-X-Forwarded-For is fetched with exactly one
\* X-Forwarded-For entry, four dot-separated integers each in 1..255
C4_RandomForwardedFor ==
    (pc = "fetching"
     /\ \A i \in DOMAIN request.raw : Lower(request.raw[i].k) \notin {H_xff, H_xmyxff}) =>
        LET sent == fetch_calls[1].headers
            keys == {i \in DOMAIN sent : Lower(sent[i].k) = H_xff}
        IN  /\ Cardinality(keys) = 1
            /\ \A i \in keys :
                   LET octets == Split(sent[i].v, ".")
                   IN  /\ Len(octets) = 4
                       /\ \A j \in 1..4 :
                              IsDecimal(octets[j]) /\ StrToInt(octets[j]) \in 1..255

\* C4's case: a request with another header only is fetched with the drawn
\* address 42.7.100.9
C4_Witness ==
    /\ pc = "fetching"
    /\ request.raw # <<>>
    /\ \A i \in DOMAIN request.raw : Lower(request.raw[i].k) \notin {H_xff, H_xmyxff}
    /\ \E i \in DOMAIN out_headers :
           out_headers[i] = [k |-> H_XForwardedFor, v |-> <<"4", "2", ".", "7", ".", "1", "0", "0", ".", "9">>]
    /\ fetch_calls[1].headers = out_headers

\* C5: a request that carries X-Forwarded-For in any casing, whatever else it
\* carries, is fetched with exactly one key equal to x-forwarded-for when
\* lower-cased, holding a value the client supplied under that name
C5_SingleForwardedFor ==
    (pc = "fetching" /\ \E j \in DOMAIN request.raw : Lower(request.raw[j].k) = H_xff) =>
        LET sent == fetch_calls[1].headers
            keys == {i \in DOMAIN sent : Lower(sent[i].k) = H_xff}
        IN  /\ Cardinality(keys) = 1
            /\ \A i \in keys :
                   \E j \in DOMAIN request.raw :
                       Lower(request.raw[j].k) = H_xff /\ request.raw[j].v = sent[i].v

\* C6: the response relayed for a downstream response has no header named
\* Content-Encoding, Content-Length or Transfer-Encoding in any casing, and has
\* every other downstream header that is not a CORS header, name and value kept
C6_ResponseHeaders ==
    (pc = "returned" /\ fetch_result.kind = "response") =>
        LET downstream == fetch_result.response.headers
            dropped == {<<"c", "o", "n", "t", "e", "n", "t", "-", "e", "n", "c", "o", "d", "i", "n", "g">>,
                        <<"c", "o", "n", "t", "e", "n", "t", "-", "l", "e", "n", "g", "t", "h">>,
                        <<"t", "r", "a", "n", "s", "f", "e", "r", "-", "e", "n", "c", "o", "d", "i", "n", "g">>}
            cors == {Lower(H_AllowOrigin), Lower(H_AllowMethods), Lower(H_AllowHeaders)}
        IN  /\ \A i \in DOMAIN response.headers :
                   Lower(response.headers[i].k) \notin dropped
            /\ \A i \in DOMAIN downstream :
                   Lower(downstream[i].k) \notin (dropped \cup cors) =>
                       \E j \in DOMAIN response.headers :
                           response.headers[j] = downstream[i]

\* C6's case: a downstream response with Content-Encoding, Content-Length and
\* X-Keep-This has been relayed, X-Keep-This with it
C6_Witness ==
    /\ pc = "returned"
    /\ fetch_result.kind = "response"
    /\ \E i \in DOMAIN fetch_result.response.headers :
           fetch_result.response.headers[i].k = <<"c", "o", "n", "t", "e", "n", "t", "-", "e", "n", "c", "o", "d", "i", "n", "g">>
    /\ \E j \in DOMAIN response.headers : response.headers[j].k = <<"x", "-", "k", "e", "e", "p", "-", "t", "h", "i", "s">>

\* C7: every response on_fetch returns carries Access-Control-Allow-Origin,
\* Access-Control-Allow-Methods and Access-Control-Allow-Headers
C7_CorsOnEveryResponse ==
    (pc = "returned") =>
        \A name \in {<<"A", "c", "c", "e", "s", "s", "-", "C", "o", "n", "t", "r", "o", "l", "-", "A", "l", "l", "o", "w", "-", "O", "r", "i", "g", "i", "n">>,
                     <<"A", "c", "c", "e", "s", "s", "-", "C", "o", "n", "t", "r", "o", "l", "-", "A", "l", "l", "o", "w", "-", "M", "e", "t", "h", "o", "d", "s">>,
                     <<"A", "c", "c", "e", "s", "s", "-", "C", "o", "n", "t", "r", "o", "l", "-", "A", "l", "l", "o", "w", "-", "H", "e", "a", "d", "e", "r", "s">>} :
            \E i \in DOMAIN response.headers : response.headers[i].k = name

\* C7's case: under bound CORS_* settings a proxied 404 has been returned whose
\* downstream response carried a CORS header of its own
C7_Witness ==
    /\ pc = "returned"
    /\ env.CORS_ORIGIN # Unbound
    /\ response.status = 404
    /\ \E i \in DOMAIN response.headers : response.headers[i].k = Lower(H_AllowOrigin)

\* C8, as the claim states it: a non-OPTIONS request with no non-empty url
\* parameter, no X-Target-URL header and a path that is "/" or does not begin
\* with http once its one leading slash is removed gets the 400 "Missing target
\* URL" with a usage object, and nothing is fetched
C8_MissingTargetAsStated ==
    LET parsed_url == urlparse(request.url)
        items == IF parsed_url.query = <<>> THEN {}
                 ELSE Range(Split(parsed_url.query, "&"))
        path == IF parsed_url.path # <<>> /\ parsed_url.path[1] = "/"
                THEN Tail(parsed_url.path) ELSE parsed_url.path
    IN  (/\ pc # "idle"
         /\ request.method # "OPTIONS"
         /\ \A item \in items : ~(StartsWith(item, <<"u", "r", "l", "=">>) /\ Len(item) > 4)
         /\ \A i \in DOMAIN request.raw : Lower(request.raw[i].k) # Lower(H_XTargetURL)
         /\ (parsed_url.path = <<"/">> \/ ~StartsWith(path, S_http))) =>
            /\ pc = "returned"
            /\ response.status = 400
            /\ response.body.kind = "json"
            /\ response.body.error = <<"M", "i", "s", "s", "i", "n", "g", " ", "t", "a", "r", "g", "e", "t", " ", "U", "R", "L">>
            /\ response.body.usage # <<>>
            /\ fetch_calls = <<>>

\* C8, amended: the same with the path taken once all its leading slashes are
\* removed: the path is "/" or does not begin with http once every leading
\* slash is removed
C8_MissingTarget ==
    LET parsed_url == urlparse(request.url)
        items == IF parsed_url.query = <<>> THEN {}
                 ELSE Range(Split(parsed_url.query, "&"))
    IN  (/\ pc # "idle"
         /\ request.method # "OPTIONS"
         /\ \A item \in items : ~(StartsWith(item, <<"u", "r", "l", "=">>) /\ Len(item) > 4)
         /\ \A i \in DOMAIN request.raw : Lower(request.raw[i].k) # Lower(H_XTargetURL)
         /\ (parsed_url.path = <<"/">>
             \/ ~StartsWith(LStrip(parsed_url.path, "/"), S_http))) =>
            /\ pc = "returned"
            /\ response.status = 400
            /\ response.body.kind = "json"
            /\ response.body.error = <<"M", "i", "s", "s", "i", "n", "g", " ", "t", "a", "r", "g", "e", "t", " ", "U", "R", "L">>
            /\ response.body.usage # <<>>
            /\ fetch_calls = <<>>

\* C8's case: a request to /x with an empty url parameter has got the 400
C8_Witness ==
    /\ pc = "returned"
    /\ response.status = 400
    /\ urlparse(request.url).path = <<"/", "x">>
    /\ StartsWith(urlparse(request.url).query, <<"u", "r", "l", "=">>)
    /\ DictKeys(parse_qs(urlparse(request.url).query)) \cap {S_url} = {}

\* C9: when the downstream fetch raises, on_fetch returns 502 with the JSON
\* error "Proxy Error: " followed by the cause, and the fetch has been attempted
\* exactly once: no invocation ever fetches a second time
C9_ProxyErrorNoRetry ==
    /\ Len(fetch_calls) <= 1
    /\ (fetch_result.kind = "raised") =>
           /\ pc = "returned"
           /\ response.status = 502
           /\ response.body.kind = "json"
           /\ response.body.error = <<"P", "r", "o", "x", "y", " ", "E", "r", "r", "o", "r", ":", " ">> \o fetch_result.cause
           /\ Len(fetch_calls) = 1

\* C9's case: the fetch of a POST raised "timeout" and the 502 has been returned
C9_Witness ==
    /\ pc = "returned"
    /\ request.method = "POST"
    /\ fetch_result.kind = "raised"
    /\ fetch_result.cause = <<"t", "i", "m", "e", "o", "u", "t">>
    /\ response.status = 502

\* C10: an OPTIONS request, whatever url parameter, X-Target-URL header or path
\* it carries, gets 204 with the three CORS headers at once, with no target
\* resolved, no headers sanitized and nothing fetched, and the invocation then
\* only ends
C10_PreflightTerminal ==
    /\ []((pc # "idle" /\ request.method = "OPTIONS") =>
            /\ pc = "returned"
            /\ response.status = 204
            /\ \A name \in {H_AllowOrigin, H_AllowMethods, H_AllowHeaders} :
                   DictHas(response.headers, name)
            /\ target_url = None
            /\ out_headers = <<>>
            /\ fetch_calls = <<>>
            /\ fetch_result = NoFetchResult)
    /\ [][(pc # "idle" /\ request.method = "OPTIONS") =>
              (pc' = "idle" /\ fetch_calls' = <<>>)]_vars

\* C10's case: an OPTIONS request with a url parameter and an X-Target-URL
\* header has got its 204
C10_Witness ==
    /\ pc = "returned"
    /\ request.method = "OPTIONS"
    /\ DictHas(parse_qs(urlparse(request.url).query), S_url)
    /\ HeadersGet(request.headers, H_XTargetURL) # None
    /\ response.status = 204

\* C11: the headers sent to the downstream fetch have no key equal, in any
\* casing, to Host, CF-Connecting-IP, CF-IPCountry, CF-Ray or CF-Visitor, and
\* every other header of the incoming request except X-My-X-Forwarded-For is
\* sent with the key and the value request.headers gave
C11_RequestHeaders ==
    (pc = "fetching") =>
        LET sent == fetch_calls[1].headers
            dropped == {<<"h", "o", "s", "t">>,
                        <<"c", "f", "-", "c", "o", "n", "n", "e", "c", "t", "i", "n", "g", "-", "i", "p">>,
                        <<"c", "f", "-", "i", "p", "c", "o", "u", "n", "t", "r", "y">>,
                        <<"c", "f", "-", "r", "a", "y">>,
                        <<"c", "f", "-", "v", "i", "s", "i", "t", "o", "r">>}
        IN  /\ \A i \in DOMAIN sent : Lower(sent[i].k) \notin dropped
            /\ \A i \in DOMAIN request.headers :
                   Lower(request.headers[i].k) \notin (dropped \cup {H_xmyxff}) =>
                       \E j \in DOMAIN sent : sent[j] = request.headers[i]

\* C11's case: a request with Cf-Visitor and X-Custom lines is being fetched
\* with x-custom and without cf-visitor
C11_Witness ==
    /\ pc = "fetching"
    /\ \E i \in DOMAIN request.raw : request.raw[i].k = <<"C", "f", "-", "V", "i", "s", "i", "t", "o", "r">>
    /\ \E i \in DOMAIN request.raw : request.raw[i].k = <<"X", "-", "C", "u", "s", "t", "o", "m">>
    /\ \E j \in DOMAIN fetch_calls[1].headers :
           fetch_calls[1].headers[j] = [k |-> Lower(<<"X", "-", "C", "u", "s", "t", "o", "m">>), v |-> <<"c">>]

\* C12: a request that carries X-My-X-Forwarded-For in any casing with value v
\* and no X-Forwarded-For is fetched with X-Forwarded-For: v, with no key equal
\* to x-my-x-forwarded-for in any casing, and with no synthesized address: v is
\* the only forwarded-for value sent
C12_ForwardedForOverride ==
    (/\ pc = "fetching"
     /\ \E i \in DOMAIN request.raw : Lower(request.raw[i].k) = H_xmyxff
     /\ \A i \in DOMAIN request.raw : Lower(request.raw[i].k) # H_xff) =>
        LET sent == fetch_calls[1].headers
        IN  /\ \E i \in DOMAIN request.raw :
                   /\ Lower(request.raw[i].k) = H_xmyxff
                   /\ \E j \in DOMAIN sent :
                          sent[j] = [k |-> <<"X", "-", "F", "o", "r", "w", "a", "r", "d", "e", "d", "-", "F", "o", "r">>, v |-> request.raw[i].v]
            /\ \A j \in DOMAIN sent : Lower(sent[j].k) # H_xmyxff
            /\ Cardinality({j \in DOMAIN sent : Lower(sent[j].k) = H_xff}) = 1

\* C12's case: X-My-X-Forwarded-For: 1.2.3.4 came with an X-Custom line and is
\* being fetched as X-Forwarded-For: 1.2.3.4
C12_Witness ==
    /\ pc = "fetching"
    /\ Len(request.raw) = 2
    /\ \E i \in DOMAIN request.raw : Lower(request.raw[i].k) = H_xmyxff
    /\ \A i \in DOMAIN request.raw : Lower(request.raw[i].k) # H_xff
    /\ \E j \in DOMAIN fetch_calls[1].headers :
           fetch_calls[1].headers[j] = [k |-> <<"X", "-", "F", "o", "r", "w", "a", "r", "d", "e", "d", "-", "F", "o", "r">>, v |-> <<"1", ".", "2", ".", "3", ".", "4">>]

\* C13: the downstream fetch is issued with the incoming request's method; its
\* body is None when the method is GET or HEAD and the request's body
\* otherwise
C13_MethodAndBody ==
    (pc = "fetching") =>
        /\ Len(fetch_calls) = 1
        /\ fetch_calls[1].method = request.method
        /\ (request.method \in {"GET", "HEAD"} => fetch_calls[1].body = "None")
        /\ (request.method \notin {"GET", "HEAD"} => fetch_calls[1].body = request.body)

\* C13's case: a POST with a body is being fetched with that body
C13_Witness ==
    /\ pc = "fetching"
    /\ request.method = "POST"
    /\ request.body = "payload"
    /\ fetch_calls[1].body = "payload"

\* C14: every get_worker call on a non-empty pool returns a member of the pool;
\* a manager constructed from a source with no endpoints (an empty list, a
\* file with no records) fails with ValueError "No workers found", a
\* construction succeeds only with a non-empty pool, and no get_worker call
\* happens on a manager that was not constructed
C14_DrawFromPool ==
    /\ [](/\ \A i \in DOMAIN get_worker_calls :
                get_worker_calls[i] # <<"ValueError">> =>
                    \E j \in DOMAIN workers : workers[j] = get_worker_calls[i]
          /\ (workers # <<>> => \A i \in DOMAIN get_worker_calls :
                                    get_worker_calls[i] # <<"ValueError">>)
          /\ (get_worker_calls # <<>> => manager = "ready"))
    /\ [][(manager = "none" /\ manager' # "none") =>
              /\ (manager' = "ready") <=> (workers' # <<>>)
              /\ (manager' = "failed") <=> (manager_error' # "None")
              /\ (shares_list' /\ caller_list' = <<>>) =>
                     manager_error' = "ValueError: No workers found in the provided source."
              /\ (~shares_list' /\ last_file'.exists /\ last_file'.well_formed
                  /\ last_file'.records = <<>>) =>
                     manager_error' = "ValueError: No workers found in the provided source."]_vars

\* C14's case: a draw from a pool of two endpoints gave its second member
C14_Witness ==
    /\ cpc = "forwarding"
    /\ Len(workers) = 2
    /\ get_worker_calls = <<workers[2]>>

\* C15: once a manager is constructed its pool never changes and is never
\* empty, whatever get_worker calls, forwards, later load_from_file calls or
\* changes by the caller to the list passed in follow, and get_worker never
\* raises
C15_PoolImmutable ==
    [][(manager = "ready") =>
           /\ workers' = workers
           /\ workers' # <<>>
           /\ \A i \in DOMAIN get_worker_calls' :
                  get_worker_calls'[i] # <<"ValueError">>]_vars

\* C16: a load from a record file that is not JSON, or in which some record
\* lacks name, url, type or created_at, fails with ValueError "Failed to parse
\* worker file" and leaves the pool exactly as it was: at construction the
\* manager is not constructed and holds no URL, later the pool is unchanged
C16_LoadAllOrNothing ==
    [][LET Lacks(r) == r.name = Absent \/ r.url = AbsentUrl \/ r.type = Absent
                       \/ r.created_at = Absent
           Malformed(file) ==
               file.exists /\ (~file.well_formed
                               \/ \E i \in DOMAIN file.records : Lacks(file.records[i]))
       IN  /\ \A file \in SourceFiles :
                  (LoadFromFile(file) /\ Malformed(file)) =>
                      /\ manager_error' = "ValueError: Failed to parse worker file"
                      /\ workers' = workers
                      /\ manager' = manager
           /\ \A file \in SourceFiles :
                  (ConstructFromFile(file) /\ Malformed(file)) =>
                      /\ manager_error' = "ValueError: Failed to parse worker file"
                      /\ workers' = <<>>
                      /\ manager' = "failed"]_vars

\* C16's case: a manager with a pool of its own has just failed to load the file
\* whose second record has no name, its first record's URL not in the pool
C16_Witness ==
    /\ manager = "ready"
    /\ manager_error = "ValueError: Failed to parse worker file"
    /\ Len(last_file.records) = 2
    /\ last_file.records[2].name = Absent
    /\ workers # <<>>
    /\ \A i \in DOMAIN workers : workers[i] # last_file.records[1].url

\* C17: when the drawn endpoint's URL has query parameters of its own, the
\* URL of the request handed to the pool has every one of them, with its
\* value, and the url parameter beside them
C17_EndpointQueryPreserved ==
    (pool_calls # <<>>) =>
        LET endpoint_qs == parse_qs(urlsplit(worker_url).query)
            sent_qs == parse_qs(urlsplit(pool_calls[1].url).query)
        IN  /\ DictHas(sent_qs, S_url)
            /\ \A i \in DOMAIN endpoint_qs :
                   /\ DictHas(sent_qs, endpoint_qs[i].k)
                   /\ DictGet(sent_qs, endpoint_qs[i].k) = endpoint_qs[i].v

\* C18: the request handed to the pool is addressed to the drawn endpoint, its
\* scheme, authority and path, and has one Host header, the endpoint's host,
\* in place of the target's
C18_AddressedToEndpoint ==
    (pool_calls # <<>>) =>
        LET sent == pool_calls[1]
            to == urlsplit(sent.url)
            endpoint == urlsplit(worker_url)
            host == Split(endpoint.netloc, ":")[1]
            hosts == {i \in DOMAIN sent.headers : Lower(sent.headers[i].k) = <<"h", "o", "s", "t">>}
        IN  /\ to.scheme = endpoint.scheme
            /\ to.netloc = endpoint.netloc
            /\ to.path = endpoint.path
            /\ Cardinality(hosts) = 1
            /\ \A i \in hosts : sent.headers[i].v = host
            /\ \A i \in hosts : sent.headers[i].v # Split(urlsplit(original_url).netloc, ":")[1]

\* C18's case: a request for host t is handed over addressed to
\* http://w2.dev:8787/r with Host: w2.dev
C18_Witness ==
    /\ cpc = "forwarding"
    /\ urlsplit(worker_url).netloc = <<"w", "2", ".", "d", "e", "v", ":", "8", "7", "8", "7">>
    /\ urlsplit(pool_calls[1].url).path = <<"/", "r">>
    /\ \E i \in DOMAIN pool_calls[1].headers :
           pool_calls[1].headers[i] = [k |-> <<"H", "o", "s", "t">>, v |-> <<"w", "2", ".", "d", "e", "v">>]

\* C19: for the same original request and the same drawn endpoint, what
\* handle_request hands to its pool and what handle_async_request hands to its
\* pool are the same in method, URL, headers and body: what either transport
\* handed over is what the other's rewrite makes of that request and endpoint
C19_SameRewrite ==
    (pool_calls # <<>>) =>
        LET sent == pool_calls[1]
            original == ClientRequest(sent.method, original_url, sent.body)
            other == IF transport = "sync" THEN RewriteAsync(original, worker_url)
                     ELSE Rewrite(original, worker_url)
        IN  /\ sent.method = other.method
            /\ sent.url = other.url
            /\ sent.headers = other.headers
            /\ sent.body = other.body

\* C19's case: the blocking transport has handed over a POST with a body
C19_Witness ==
    /\ cpc = "forwarding"
    /\ transport = "sync"
    /\ pool_calls # <<>>
    /\ pool_calls[1].method = "POST"
    /\ pool_calls[1].body = "payload"

C21_NoReservedParams ==
    LET Names(qs) == IF qs = <<>> THEN {}
                     ELSE {Split(item, "=")[1] : item \in Range(Split(qs, "&"))}
    IN  (pc = "fetching") =>
            Names(urlparse(fetch_calls[1].url).query) \cap FILTERED_PARAMS = {}

\* C22: when the target comes from the url parameter and a non-control name
\* occurs both in the target's own query and among the relay request's other
\* parameters, the URL fetched carries for that name the relay request's
\* values, in order, and none of the target's own
C22_RelayValuesWin ==
    LET NameOf(item, i) == IF i = 0 THEN item ELSE Take(item, i - 1)
        ValueOf(item, i) == IF i = 0 THEN <<>> ELSE unquote(PlusToSpace(Drop(item, i)))
        Named(qs, n) == SelectSeq(Split(qs, "&"), LAMBDA item : NameOf(item, Find(item, "=")) = n)
        Values(items) == [i \in DOMAIN items |-> ValueOf(items[i], Find(items[i], "="))]
        Names(qs) == IF qs = <<>> THEN {}
                     ELSE {NameOf(item, Find(item, "=")) : item \in Range(Split(qs, "&"))}
        relay_qs == urlparse(request.url).query
        query_params == parse_qs(relay_qs)
    IN  (pc = "fetching" /\ DictHas(query_params, S_url)) =>
            LET target_qs == urlparse(DictGet(query_params, S_url)[1]).query
                sent_qs == urlparse(fetch_calls[1].url).query
            IN  \A n \in (Names(relay_qs) \cap Names(target_qs)) \ FILTERED_PARAMS :
                    Values(Named(sent_qs, n)) = Values(Named(relay_qs, n))

\* C23: on the OPTIONS preflight and on proxied responses the three CORS headers
\* have the values of CORS_ORIGIN, CORS_METHODS and CORS_ALLOWED_HEADERS when
\* these are bound and otherwise "*", "GET, POST, PUT, DELETE, OPTIONS, PATCH,
\* HEAD" and "*"
C23_CorsFromEnv ==
    (pc = "returned" /\ (request.method = "OPTIONS" \/ fetch_result.kind = "response")) =>
        /\ DictGet(response.headers, H_AllowOrigin)
               = EnvGet(env, "CORS_ORIGIN", DictGet(DefaultCorsHeaders, H_AllowOrigin))
        /\ DictGet(response.headers, H_AllowMethods)
               = EnvGet(env, "CORS_METHODS", DictGet(DefaultCorsHeaders, H_AllowMethods))
        /\ DictGet(response.headers, H_AllowHeaders)
               = EnvGet(env, "CORS_ALLOWED_HEADERS", DictGet(DefaultCorsHeaders, H_AllowHeaders))

\* C24: every failing relay request ends in one JSON response with an error
\* field, status 400 exactly when no target was resolved and 502 exactly when
\* the downstream fetch failed; on_fetch never ends by raising
C24_EveryFailureAnswered ==
    /\ pc # "raised"
    /\ (pc = "returned" /\ request.method # "OPTIONS") =>
           /\ Falsy(target_url) <=> response.status = 400
           /\ (fetch_result.kind = "raised") <=> response.status = 502
           /\ (Falsy(target_url) \/ fetch_result.kind = "raised") =>
                  /\ response.body.kind = "json"
                  /\ response.body.error # <<>>

C26_OwnPrefixOnly ==
    /\ [](LET p == service.worker_prefix \o <<"-">>
              Own(n) == Len(n) >= Len(p) /\ SubSeq(n, 1, Len(p)) = p
          IN  service # NoService =>
                  /\ \A k \in 1..Len(service.delete_calls) : Own(service.delete_calls[k])
                  /\ (service.name # None /\ ~Own(service.name)) =>
                         service.raised = "ValueError")
    /\ [][LET p == service'.worker_prefix \o <<"-">>
              Own(n) == Len(n) >= Len(p) /\ SubSeq(n, 1, Len(p)) = p
          IN  \/ service'.delete_calls = service.delete_calls
              \/ /\ Own(service'.name)
                 /\ service'.delete_calls = Append(service.delete_calls, service'.name)]_vars

\* C26's case: the service with prefix proxyflare has deleted one worker of its
\* own and then refused proxyflarex-b
C26_Witness ==
    /\ service.worker_prefix = <<"p", "r", "o", "x", "y", "f", "l", "a", "r", "e">>
    /\ Len(service.delete_calls) = 1
    /\ service.name = <<"p", "r", "o", "x", "y", "f", "l", "a", "r", "e", "x", "-", "b">>
    /\ service.raised = "ValueError"

C28_EveryListedOnce ==
    LET attempted == cli.deleted \o cli.failed
        Times(name) == Cardinality({k \in 1..Len(attempted) : attempted[k] = name})
    IN  /\ (cli.pc \in {"reported", "raised"}) =>
               /\ Len(cli.deleted) + Len(cli.failed) = Len(cli.snapshot)
               /\ \A k \in 1..Len(cli.snapshot) : Times(cli.snapshot[k]) = 1
        /\ (cli.pc \in {"returned", "cancelled"}) =>
               attempted = <<>> /\ service.delete_calls = <<>>

\* C29: every worker delete --all attempts to delete was in the listing shown
\* before the confirmation
C29_OnlyListed ==
    \A k \in 1..Len(cli.deleted \o cli.failed) :
        \E j \in 1..Len(cli.snapshot) : (cli.deleted \o cli.failed)[k] = cli.snapshot[j]

\* C30: a forward rewrites the caller's request object itself: after it the
\* object is the request handed to the pool, its URL the relay URL of the drawn
\* endpoint and its one Host header the endpoint's host, and the url parameter
\* decodes to the URL the object had before the forward, which on a second
\* forward of the same object is the previous relay URL and not the original target
C30_RewrittenInPlace ==
    [][(cpc = "idle" /\ cpc' = "forwarding") =>
           LET to == urlsplit(caller_request'.url)
               endpoint == urlsplit(worker_url')
               hosts == {i \in DOMAIN caller_request'.headers :
                            Lower(caller_request'.headers[i].k) = <<"h", "o", "s", "t">>}
               was == urlsplit(caller_request.url)
           IN  /\ pool_calls' = <<caller_request'>>
               /\ to.scheme = endpoint.scheme
               /\ to.netloc = endpoint.netloc
               /\ to.path = endpoint.path
               /\ Cardinality(hosts) = 1
               /\ \A i \in hosts : caller_request'.headers[i].v = Split(endpoint.netloc, ":")[1]
               /\ parse_qs(to.query) = << [k |-> <<"u", "r", "l">>, v |-> <<caller_request.url>>] >>
               /\ StartsWith(was.query, <<"u", "r", "l", "=">>) =>
                      DictGet(parse_qs(to.query), <<"u", "r", "l">>)
                          # DictGet(parse_qs(was.query), <<"u", "r", "l">>)]_vars

\* C30's case: a request for http://t/p is being forwarded a second time, and
\* the url parameter of its URL decodes to a relay URL with a url parameter of
\* its own
C30_Witness ==
    /\ cpc = "forwarding"
    /\ StartsWith(urlsplit(original_url).query, <<"u", "r", "l", "=">>)
    /\ parse_qs(urlsplit(original_url).query) = << [k |-> <<"u", "r", "l">>, v |-> <<<<"h", "t", "t", "p", ":", "/", "/", "t", "/", "p">>>>] >>
    /\ parse_qs(urlsplit(caller_request.url).query) = << [k |-> <<"u", "r", "l">>, v |-> <<original_url>>] >>
====
